---- MODULE Spec2Model ----
(***************************************************************************)
(* MedBot: one triage turn (src/src/main.py get_chatbot_response) with its *)
(* NLU calls (src/src/llm_client.py, each through _call_llm_with_retry)    *)
(* and its store calls (src/src/firebase_client.py).                       *)
(*                                                                         *)
(* Representation of Python values:                                        *)
(*   - str used as an opaque id, name or date: a TLA+ string;              *)
(*   - str that the code strips, case-folds or joins (NLU replies of the   *)
(*     red-flag and specialty steps, the 'specialization' field, the       *)
(*     fields of a prescription): a sequence of one-character strings;     *)
(*   - the value of 'prescriptions' and its entries: records tagged with   *)
(*     their Python type (PyList, PyDict, PyStr);                          *)
(*   - dict: a record whose DOMAIN is the set of keys present;             *)
(*   - None where a str is expected: the value None; None where a dict or  *)
(*     a composed text is expected: the value NoneObj;                     *)
(*   - float('nan') (what pandas puts in a missing cell): the value NaN.   *)
(***************************************************************************)
EXTENDS Integers, Sequences, FiniteSets, TLC

VARIABLES
    model_type,        \* main.model_type; "" while the clients are not initialised (model is None)
    db,                \* firebase_client.db is set (TRUE) or None (FALSE)
    appointments,      \* the store's 'appointments' collection, in stream() order
    staffs,            \* the store's 'staffs' collection (every role), in stream() order
    pendingApprovals,  \* the store's 'pendingApprovals' collection, in creation order
    req                \* per request: position in get_chatbot_response, its locals, its collaborator calls

vars == <<model_type, db, appointments, staffs, pendingApprovals, req>>

----------------------------------------------------------------------------
(* Bounds of the model *)

NumRequests == 1

Requests == 1..NumRequests

----------------------------------------------------------------------------
(* Python values *)

None == "<None>"
NaN == "<nan>"
NoneObj == [py |-> "None"]

\* bool(v) for a str, None or float('nan'): nan is a non-zero float, hence true
Truthy(v) == v # None /\ v # ""

Get(d, k) == IF k \in DOMAIN d THEN d[k] ELSE None

\* A character is a string of one character, written as it is: the module is
\* UTF-8 text, and a character that has no escape stands in a string itself.
\* Inside a string the parser refuses the backtick and parts of Unicode (among
\* them U+0100-U+017F, U+0400-U+047F, U+2000-U+207F, U+3000 and every
\* character above U+FFFF), so no string of this module holds those; where
\* str.lower() yields such a character from a capital that can be written, the
\* result is named by its code point ("U+0253").

\* the pairs (c, c.lower()) of str.lower() for the characters c outside ASCII
\* that str.lower() changes
LowerPairs ==
    <<<<"À", "à">>, <<"Á", "á">>, <<"Â", "â">>, <<"Ã", "ã">>, <<"Ä", "ä">>, <<"Å", "å">>,
      <<"Æ", "æ">>, <<"Ç", "ç">>, <<"È", "è">>, <<"É", "é">>, <<"Ê", "ê">>, <<"Ë", "ë">>,
      <<"Ì", "ì">>, <<"Í", "í">>, <<"Î", "î">>, <<"Ï", "ï">>, <<"Ð", "ð">>, <<"Ñ", "ñ">>,
      <<"Ò", "ò">>, <<"Ó", "ó">>, <<"Ô", "ô">>, <<"Õ", "õ">>, <<"Ö", "ö">>, <<"Ø", "ø">>,
      <<"Ù", "ù">>, <<"Ú", "ú">>, <<"Û", "û">>, <<"Ü", "ü">>, <<"Ý", "ý">>, <<"Þ", "þ">>,
      <<"Ɓ", "U+0253">>, <<"Ƃ", "ƃ">>, <<"Ƅ", "ƅ">>, <<"Ɔ", "U+0254">>, <<"Ƈ", "ƈ">>, <<"Ɖ", "U+0256">>,
      <<"Ɗ", "U+0257">>, <<"Ƌ", "ƌ">>, <<"Ǝ", "ǝ">>, <<"Ə", "U+0259">>, <<"Ɛ", "U+025B">>, <<"Ƒ", "ƒ">>,
      <<"Ɠ", "U+0260">>, <<"Ɣ", "U+0263">>, <<"Ɩ", "U+0269">>, <<"Ɨ", "U+0268">>, <<"Ƙ", "ƙ">>, <<"Ɯ", "U+026F">>,
      <<"Ɲ", "U+0272">>, <<"Ɵ", "U+0275">>, <<"Ơ", "ơ">>, <<"Ƣ", "ƣ">>, <<"Ƥ", "ƥ">>, <<"Ʀ", "ʀ">>,
      <<"Ƨ", "ƨ">>, <<"Ʃ", "ʃ">>, <<"Ƭ", "ƭ">>, <<"Ʈ", "ʈ">>, <<"Ư", "ư">>, <<"Ʊ", "ʊ">>,
      <<"Ʋ", "ʋ">>, <<"Ƴ", "ƴ">>, <<"Ƶ", "ƶ">>, <<"Ʒ", "ʒ">>, <<"Ƹ", "ƹ">>, <<"Ƽ", "ƽ">>,
      <<"Ǆ", "ǆ">>, <<"ǅ", "ǆ">>, <<"Ǉ", "ǉ">>, <<"ǈ", "ǉ">>, <<"Ǌ", "ǌ">>, <<"ǋ", "ǌ">>,
      <<"Ǎ", "ǎ">>, <<"Ǐ", "ǐ">>, <<"Ǒ", "ǒ">>, <<"Ǔ", "ǔ">>, <<"Ǖ", "ǖ">>, <<"Ǘ", "ǘ">>,
      <<"Ǚ", "ǚ">>, <<"Ǜ", "ǜ">>, <<"Ǟ", "ǟ">>, <<"Ǡ", "ǡ">>, <<"Ǣ", "ǣ">>, <<"Ǥ", "ǥ">>,
      <<"Ǧ", "ǧ">>, <<"Ǩ", "ǩ">>, <<"Ǫ", "ǫ">>, <<"Ǭ", "ǭ">>, <<"Ǯ", "ǯ">>, <<"Ǳ", "ǳ">>,
      <<"ǲ", "ǳ">>, <<"Ǵ", "ǵ">>, <<"Ƕ", "ƕ">>, <<"Ƿ", "ƿ">>, <<"Ǹ", "ǹ">>, <<"Ǻ", "ǻ">>,
      <<"Ǽ", "ǽ">>, <<"Ǿ", "ǿ">>, <<"Ά", "ά">>, <<"Έ", "έ">>, <<"Ή", "ή">>, <<"Ί", "ί">>,
      <<"Ό", "ό">>, <<"Ύ", "ύ">>, <<"Ώ", "ώ">>, <<"Α", "α">>, <<"Β", "β">>, <<"Γ", "γ">>,
      <<"Δ", "δ">>, <<"Ε", "ε">>, <<"Ζ", "ζ">>, <<"Η", "η">>, <<"Θ", "θ">>, <<"Ι", "ι">>,
      <<"Κ", "κ">>, <<"Λ", "λ">>, <<"Μ", "μ">>, <<"Ν", "ν">>, <<"Ξ", "ξ">>, <<"Ο", "ο">>,
      <<"Π", "π">>, <<"Ρ", "ρ">>, <<"Σ", "σ">>, <<"Τ", "τ">>, <<"Υ", "υ">>, <<"Φ", "φ">>,
      <<"Χ", "χ">>, <<"Ψ", "ψ">>, <<"Ω", "ω">>, <<"Ϊ", "ϊ">>, <<"Ϋ", "ϋ">>, <<"Ϗ", "ϗ">>,
      <<"Ϙ", "ϙ">>, <<"Ϛ", "ϛ">>, <<"Ϝ", "ϝ">>, <<"Ϟ", "ϟ">>, <<"Ϡ", "ϡ">>, <<"Ϣ", "ϣ">>,
      <<"Ϥ", "ϥ">>, <<"Ϧ", "ϧ">>, <<"Ϩ", "ϩ">>, <<"Ϫ", "ϫ">>, <<"Ϭ", "ϭ">>, <<"Ϯ", "ϯ">>,
      <<"ϴ", "θ">>, <<"Ϸ", "ϸ">>, <<"Ϲ", "ϲ">>, <<"Ϻ", "ϻ">>, <<"Ͻ", "U+037B">>, <<"Ͼ", "U+037C">>,
      <<"Ͽ", "U+037D">>, <<"Ҁ", "ҁ">>, <<"Ҋ", "ҋ">>, <<"Ҍ", "ҍ">>, <<"Ҏ", "ҏ">>, <<"Ґ", "ґ">>,
      <<"Ғ", "ғ">>, <<"Ҕ", "ҕ">>, <<"Җ", "җ">>, <<"Ҙ", "ҙ">>, <<"Қ", "қ">>, <<"Ҝ", "ҝ">>,
      <<"Ҟ", "ҟ">>, <<"Ҡ", "ҡ">>, <<"Ң", "ң">>, <<"Ҥ", "ҥ">>, <<"Ҧ", "ҧ">>, <<"Ҩ", "ҩ">>,
      <<"Ҫ", "ҫ">>, <<"Ҭ", "ҭ">>, <<"Ү", "ү">>, <<"Ұ", "ұ">>, <<"Ҳ", "ҳ">>, <<"Ҵ", "ҵ">>,
      <<"Ҷ", "ҷ">>, <<"Ҹ", "ҹ">>, <<"Һ", "һ">>, <<"Ҽ", "ҽ">>, <<"Ҿ", "ҿ">>, <<"Ӏ", "ӏ">>,
      <<"Ӂ", "ӂ">>, <<"Ӄ", "ӄ">>, <<"Ӆ", "ӆ">>, <<"Ӈ", "ӈ">>, <<"Ӊ", "ӊ">>, <<"Ӌ", "ӌ">>,
      <<"Ӎ", "ӎ">>, <<"Ӑ", "ӑ">>, <<"Ӓ", "ӓ">>, <<"Ӕ", "ӕ">>, <<"Ӗ", "ӗ">>, <<"Ә", "ә">>,
      <<"Ӛ", "ӛ">>, <<"Ӝ", "ӝ">>, <<"Ӟ", "ӟ">>, <<"Ӡ", "ӡ">>, <<"Ӣ", "ӣ">>, <<"Ӥ", "ӥ">>,
      <<"Ӧ", "ӧ">>, <<"Ө", "ө">>, <<"Ӫ", "ӫ">>, <<"Ӭ", "ӭ">>, <<"Ӯ", "ӯ">>, <<"Ӱ", "ӱ">>,
      <<"Ӳ", "ӳ">>, <<"Ӵ", "ӵ">>, <<"Ӷ", "ӷ">>, <<"Ӹ", "ӹ">>, <<"Ӻ", "ӻ">>, <<"Ӽ", "ӽ">>,
      <<"Ӿ", "ӿ">>, <<"Ⴀ", "U+2D00">>, <<"Ⴁ", "U+2D01">>, <<"Ⴂ", "U+2D02">>, <<"Ⴃ", "U+2D03">>, <<"Ⴄ", "U+2D04">>,
      <<"Ⴅ", "U+2D05">>, <<"Ⴆ", "U+2D06">>, <<"Ⴇ", "U+2D07">>, <<"Ⴈ", "U+2D08">>, <<"Ⴉ", "U+2D09">>, <<"Ⴊ", "U+2D0A">>,
      <<"Ⴋ", "U+2D0B">>, <<"Ⴌ", "U+2D0C">>, <<"Ⴍ", "U+2D0D">>, <<"Ⴎ", "U+2D0E">>, <<"Ⴏ", "U+2D0F">>, <<"Ⴐ", "U+2D10">>,
      <<"Ⴑ", "U+2D11">>, <<"Ⴒ", "U+2D12">>, <<"Ⴓ", "U+2D13">>, <<"Ⴔ", "U+2D14">>, <<"Ⴕ", "U+2D15">>, <<"Ⴖ", "U+2D16">>,
      <<"Ⴗ", "U+2D17">>, <<"Ⴘ", "U+2D18">>, <<"Ⴙ", "U+2D19">>, <<"Ⴚ", "U+2D1A">>, <<"Ⴛ", "U+2D1B">>, <<"Ⴜ", "U+2D1C">>,
      <<"Ⴝ", "U+2D1D">>, <<"Ⴞ", "U+2D1E">>, <<"Ⴟ", "U+2D1F">>, <<"Ⴠ", "U+2D20">>, <<"Ⴡ", "U+2D21">>, <<"Ⴢ", "U+2D22">>,
      <<"Ⴣ", "U+2D23">>, <<"Ⴤ", "U+2D24">>, <<"Ⴥ", "U+2D25">>, <<"Ⴧ", "U+2D27">>, <<"Ⴭ", "U+2D2D">>, <<"Ꭰ", "U+AB70">>,
      <<"Ꭱ", "U+AB71">>, <<"Ꭲ", "U+AB72">>, <<"Ꭳ", "U+AB73">>, <<"Ꭴ", "U+AB74">>, <<"Ꭵ", "U+AB75">>, <<"Ꭶ", "U+AB76">>,
      <<"Ꭷ", "U+AB77">>, <<"Ꭸ", "U+AB78">>, <<"Ꭹ", "U+AB79">>, <<"Ꭺ", "U+AB7A">>, <<"Ꭻ", "U+AB7B">>, <<"Ꭼ", "U+AB7C">>,
      <<"Ꭽ", "U+AB7D">>, <<"Ꭾ", "U+AB7E">>, <<"Ꭿ", "U+AB7F">>, <<"Ꮀ", "ꮀ">>, <<"Ꮁ", "ꮁ">>, <<"Ꮂ", "ꮂ">>,
      <<"Ꮃ", "ꮃ">>, <<"Ꮄ", "ꮄ">>, <<"Ꮅ", "ꮅ">>, <<"Ꮆ", "ꮆ">>, <<"Ꮇ", "ꮇ">>, <<"Ꮈ", "ꮈ">>,
      <<"Ꮉ", "ꮉ">>, <<"Ꮊ", "ꮊ">>, <<"Ꮋ", "ꮋ">>, <<"Ꮌ", "ꮌ">>, <<"Ꮍ", "ꮍ">>, <<"Ꮎ", "ꮎ">>,
      <<"Ꮏ", "ꮏ">>, <<"Ꮐ", "ꮐ">>, <<"Ꮑ", "ꮑ">>, <<"Ꮒ", "ꮒ">>, <<"Ꮓ", "ꮓ">>, <<"Ꮔ", "ꮔ">>,
      <<"Ꮕ", "ꮕ">>, <<"Ꮖ", "ꮖ">>, <<"Ꮗ", "ꮗ">>, <<"Ꮘ", "ꮘ">>, <<"Ꮙ", "ꮙ">>, <<"Ꮚ", "ꮚ">>,
      <<"Ꮛ", "ꮛ">>, <<"Ꮜ", "ꮜ">>, <<"Ꮝ", "ꮝ">>, <<"Ꮞ", "ꮞ">>, <<"Ꮟ", "ꮟ">>, <<"Ꮠ", "ꮠ">>,
      <<"Ꮡ", "ꮡ">>, <<"Ꮢ", "ꮢ">>, <<"Ꮣ", "ꮣ">>, <<"Ꮤ", "ꮤ">>, <<"Ꮥ", "ꮥ">>, <<"Ꮦ", "ꮦ">>,
      <<"Ꮧ", "ꮧ">>, <<"Ꮨ", "ꮨ">>, <<"Ꮩ", "ꮩ">>, <<"Ꮪ", "ꮪ">>, <<"Ꮫ", "ꮫ">>, <<"Ꮬ", "ꮬ">>,
      <<"Ꮭ", "ꮭ">>, <<"Ꮮ", "ꮮ">>, <<"Ꮯ", "ꮯ">>, <<"Ꮰ", "ꮰ">>, <<"Ꮱ", "ꮱ">>, <<"Ꮲ", "ꮲ">>,
      <<"Ꮳ", "ꮳ">>, <<"Ꮴ", "ꮴ">>, <<"Ꮵ", "ꮵ">>, <<"Ꮶ", "ꮶ">>, <<"Ꮷ", "ꮷ">>, <<"Ꮸ", "ꮸ">>,
      <<"Ꮹ", "ꮹ">>, <<"Ꮺ", "ꮺ">>, <<"Ꮻ", "ꮻ">>, <<"Ꮼ", "ꮼ">>, <<"Ꮽ", "ꮽ">>, <<"Ꮾ", "ꮾ">>,
      <<"Ꮿ", "ꮿ">>, <<"Ᏸ", "ᏸ">>, <<"Ᏹ", "ᏹ">>, <<"Ᏺ", "ᏺ">>, <<"Ᏻ", "ᏻ">>, <<"Ᏼ", "ᏼ">>,
      <<"Ᏽ", "ᏽ">>, <<"Ა", "ა">>, <<"Ბ", "ბ">>, <<"Გ", "გ">>, <<"Დ", "დ">>, <<"Ე", "ე">>,
      <<"Ვ", "ვ">>, <<"Ზ", "ზ">>, <<"Თ", "თ">>, <<"Ი", "ი">>, <<"Კ", "კ">>, <<"Ლ", "ლ">>,
      <<"Მ", "მ">>, <<"Ნ", "ნ">>, <<"Ო", "ო">>, <<"Პ", "პ">>, <<"Ჟ", "ჟ">>, <<"Რ", "რ">>,
      <<"Ს", "ს">>, <<"Ტ", "ტ">>, <<"Უ", "უ">>, <<"Ფ", "ფ">>, <<"Ქ", "ქ">>, <<"Ღ", "ღ">>,
      <<"Ყ", "ყ">>, <<"Შ", "შ">>, <<"Ჩ", "ჩ">>, <<"Ც", "ც">>, <<"Ძ", "ძ">>, <<"Წ", "წ">>,
      <<"Ჭ", "ჭ">>, <<"Ხ", "ხ">>, <<"Ჯ", "ჯ">>, <<"Ჰ", "ჰ">>, <<"Ჱ", "ჱ">>, <<"Ჲ", "ჲ">>,
      <<"Ჳ", "ჳ">>, <<"Ჴ", "ჴ">>, <<"Ჵ", "ჵ">>, <<"Ჶ", "ჶ">>, <<"Ჷ", "ჷ">>, <<"Ჸ", "ჸ">>,
      <<"Ჹ", "ჹ">>, <<"Ჺ", "ჺ">>, <<"Ჽ", "ჽ">>, <<"Ჾ", "ჾ">>, <<"Ჿ", "ჿ">>, <<"Ẁ", "ẁ">>,
      <<"Ẃ", "ẃ">>, <<"Ẅ", "ẅ">>, <<"Ẇ", "ẇ">>, <<"Ẉ", "ẉ">>, <<"Ẋ", "ẋ">>, <<"Ẍ", "ẍ">>,
      <<"Ẏ", "ẏ">>, <<"Ẑ", "ẑ">>, <<"Ẓ", "ẓ">>, <<"Ẕ", "ẕ">>, <<"ẞ", "ß">>, <<"Ạ", "ạ">>,
      <<"Ả", "ả">>, <<"Ấ", "ấ">>, <<"Ầ", "ầ">>, <<"Ẩ", "ẩ">>, <<"Ẫ", "ẫ">>, <<"Ậ", "ậ">>,
      <<"Ắ", "ắ">>, <<"Ằ", "ằ">>, <<"Ẳ", "ẳ">>, <<"Ẵ", "ẵ">>, <<"Ặ", "ặ">>, <<"Ẹ", "ẹ">>,
      <<"Ẻ", "ẻ">>, <<"Ẽ", "ẽ">>, <<"Ế", "ế">>, <<"Ề", "ề">>, <<"Ể", "ể">>, <<"Ễ", "ễ">>,
      <<"Ệ", "ệ">>, <<"Ỉ", "ỉ">>, <<"Ị", "ị">>, <<"Ọ", "ọ">>, <<"Ỏ", "ỏ">>, <<"Ố", "ố">>,
      <<"Ồ", "ồ">>, <<"Ổ", "ổ">>, <<"Ỗ", "ỗ">>, <<"Ộ", "ộ">>, <<"Ớ", "ớ">>, <<"Ờ", "ờ">>,
      <<"Ở", "ở">>, <<"Ỡ", "ỡ">>, <<"Ợ", "ợ">>, <<"Ụ", "ụ">>, <<"Ủ", "ủ">>, <<"Ứ", "ứ">>,
      <<"Ừ", "ừ">>, <<"Ử", "ử">>, <<"Ữ", "ữ">>, <<"Ự", "ự">>, <<"Ỳ", "ỳ">>, <<"Ỵ", "ỵ">>,
      <<"Ỷ", "ỷ">>, <<"Ỹ", "ỹ">>, <<"Ỻ", "ỻ">>, <<"Ỽ", "ỽ">>, <<"Ỿ", "ỿ">>, <<"ᾈ", "ᾀ">>,
      <<"ᾉ", "ᾁ">>, <<"ᾊ", "ᾂ">>, <<"ᾋ", "ᾃ">>, <<"ᾌ", "ᾄ">>, <<"ᾍ", "ᾅ">>, <<"ᾎ", "ᾆ">>,
      <<"ᾏ", "ᾇ">>, <<"ᾘ", "ᾐ">>, <<"ᾙ", "ᾑ">>, <<"ᾚ", "ᾒ">>, <<"ᾛ", "ᾓ">>, <<"ᾜ", "ᾔ">>,
      <<"ᾝ", "ᾕ">>, <<"ᾞ", "ᾖ">>, <<"ᾟ", "ᾗ">>, <<"ᾨ", "ᾠ">>, <<"ᾩ", "ᾡ">>, <<"ᾪ", "ᾢ">>,
      <<"ᾫ", "ᾣ">>, <<"ᾬ", "ᾤ">>, <<"ᾭ", "ᾥ">>, <<"ᾮ", "ᾦ">>, <<"ᾯ", "ᾧ">>, <<"Ᾰ", "ᾰ">>,
      <<"Ᾱ", "ᾱ">>, <<"Ὰ", "U+1F70">>, <<"Ά", "U+1F71">>, <<"ᾼ", "ᾳ">>, <<"Ὲ", "U+1F72">>, <<"Έ", "U+1F73">>,
      <<"Ὴ", "U+1F74">>, <<"Ή", "U+1F75">>, <<"ῌ", "ῃ">>, <<"Ῐ", "ῐ">>, <<"Ῑ", "ῑ">>, <<"Ὶ", "U+1F76">>,
      <<"Ί", "U+1F77">>, <<"Ῠ", "ῠ">>, <<"Ῡ", "ῡ">>, <<"Ὺ", "U+1F7A">>, <<"Ύ", "U+1F7B">>, <<"Ῥ", "ῥ">>,
      <<"Ὸ", "U+1F78">>, <<"Ό", "U+1F79">>, <<"Ὼ", "U+1F7C">>, <<"Ώ", "U+1F7D">>, <<"ῼ", "ῳ">>, <<"Ↄ", "ↄ">>,
      <<"Ⓐ", "ⓐ">>, <<"Ⓑ", "ⓑ">>, <<"Ⓒ", "ⓒ">>, <<"Ⓓ", "ⓓ">>, <<"Ⓔ", "ⓔ">>, <<"Ⓕ", "ⓕ">>,
      <<"Ⓖ", "ⓖ">>, <<"Ⓗ", "ⓗ">>, <<"Ⓘ", "ⓘ">>, <<"Ⓙ", "ⓙ">>, <<"Ⓚ", "ⓚ">>, <<"Ⓛ", "ⓛ">>,
      <<"Ⓜ", "ⓜ">>, <<"Ⓝ", "ⓝ">>, <<"Ⓞ", "ⓞ">>, <<"Ⓟ", "ⓟ">>, <<"Ⓠ", "ⓠ">>, <<"Ⓡ", "ⓡ">>,
      <<"Ⓢ", "ⓢ">>, <<"Ⓣ", "ⓣ">>, <<"Ⓤ", "ⓤ">>, <<"Ⓥ", "ⓥ">>, <<"Ⓦ", "ⓦ">>, <<"Ⓧ", "ⓧ">>,
      <<"Ⓨ", "ⓨ">>, <<"Ⓩ", "ⓩ">>, <<"Ⲁ", "ⲁ">>, <<"Ⲃ", "ⲃ">>, <<"Ⲅ", "ⲅ">>, <<"Ⲇ", "ⲇ">>,
      <<"Ⲉ", "ⲉ">>, <<"Ⲋ", "ⲋ">>, <<"Ⲍ", "ⲍ">>, <<"Ⲏ", "ⲏ">>, <<"Ⲑ", "ⲑ">>, <<"Ⲓ", "ⲓ">>,
      <<"Ⲕ", "ⲕ">>, <<"Ⲗ", "ⲗ">>, <<"Ⲙ", "ⲙ">>, <<"Ⲛ", "ⲛ">>, <<"Ⲝ", "ⲝ">>, <<"Ⲟ", "ⲟ">>,
      <<"Ⲡ", "ⲡ">>, <<"Ⲣ", "ⲣ">>, <<"Ⲥ", "ⲥ">>, <<"Ⲧ", "ⲧ">>, <<"Ⲩ", "ⲩ">>, <<"Ⲫ", "ⲫ">>,
      <<"Ⲭ", "ⲭ">>, <<"Ⲯ", "ⲯ">>, <<"Ⲱ", "ⲱ">>, <<"Ⲳ", "ⲳ">>, <<"Ⲵ", "ⲵ">>, <<"Ⲷ", "ⲷ">>,
      <<"Ⲹ", "ⲹ">>, <<"Ⲻ", "ⲻ">>, <<"Ⲽ", "ⲽ">>, <<"Ⲿ", "ⲿ">>, <<"Ⳁ", "ⳁ">>, <<"Ⳃ", "ⳃ">>,
      <<"Ⳅ", "ⳅ">>, <<"Ⳇ", "ⳇ">>, <<"Ⳉ", "ⳉ">>, <<"Ⳋ", "ⳋ">>, <<"Ⳍ", "ⳍ">>, <<"Ⳏ", "ⳏ">>,
      <<"Ⳑ", "ⳑ">>, <<"Ⳓ", "ⳓ">>, <<"Ⳕ", "ⳕ">>, <<"Ⳗ", "ⳗ">>, <<"Ⳙ", "ⳙ">>, <<"Ⳛ", "ⳛ">>,
      <<"Ⳝ", "ⳝ">>, <<"Ⳟ", "ⳟ">>, <<"Ⳡ", "ⳡ">>, <<"Ⳣ", "ⳣ">>, <<"Ⳬ", "ⳬ">>, <<"Ⳮ", "ⳮ">>,
      <<"Ⳳ", "ⳳ">>, <<"Ꚁ", "ꚁ">>, <<"Ꚃ", "ꚃ">>, <<"Ꚅ", "ꚅ">>, <<"Ꚇ", "ꚇ">>, <<"Ꚉ", "ꚉ">>,
      <<"Ꚋ", "ꚋ">>, <<"Ꚍ", "ꚍ">>, <<"Ꚏ", "ꚏ">>, <<"Ꚑ", "ꚑ">>, <<"Ꚓ", "ꚓ">>, <<"Ꚕ", "ꚕ">>,
      <<"Ꚗ", "ꚗ">>, <<"Ꚙ", "ꚙ">>, <<"Ꚛ", "ꚛ">>, <<"Ꞁ", "ꞁ">>, <<"Ꞃ", "ꞃ">>, <<"Ꞅ", "ꞅ">>,
      <<"Ꞇ", "ꞇ">>, <<"Ꞌ", "ꞌ">>, <<"Ɥ", "U+0265">>, <<"Ꞑ", "ꞑ">>, <<"Ꞓ", "ꞓ">>, <<"Ꞗ", "ꞗ">>,
      <<"Ꞙ", "ꞙ">>, <<"Ꞛ", "ꞛ">>, <<"Ꞝ", "ꞝ">>, <<"Ꞟ", "ꞟ">>, <<"Ꞡ", "ꞡ">>, <<"Ꞣ", "ꞣ">>,
      <<"Ꞥ", "ꞥ">>, <<"Ꞧ", "ꞧ">>, <<"Ꞩ", "ꞩ">>, <<"Ɦ", "U+0266">>, <<"Ɜ", "U+025C">>, <<"Ɡ", "U+0261">>,
      <<"Ɬ", "U+026C">>, <<"Ɪ", "U+026A">>, <<"Ʞ", "ʞ">>, <<"Ʇ", "ʇ">>, <<"Ʝ", "ʝ">>, <<"Ꭓ", "U+AB53">>,
      <<"Ꞵ", "ꞵ">>, <<"Ꞷ", "ꞷ">>, <<"Ꞹ", "ꞹ">>, <<"Ꞻ", "ꞻ">>, <<"Ꞽ", "ꞽ">>, <<"Ꞿ", "ꞿ">>,
      <<"Ꟁ", "ꟁ">>, <<"Ꟃ", "ꟃ">>, <<"Ꞔ", "ꞔ">>, <<"Ʂ", "ʂ">>, <<"Ᶎ", "ᶎ">>, <<"Ꟈ", "ꟈ">>,
      <<"Ꟊ", "ꟊ">>, <<"Ꟑ", "ꟑ">>, <<"Ꟗ", "ꟗ">>, <<"Ꟙ", "ꟙ">>, <<"Ꟶ", "ꟶ">>>>

NonAsciiCapitals == {LowerPairs[i][1] : i \in DOMAIN LowerPairs}

\* str.lower() of one character standing alone: a character that has a lower
\* case is folded to it, every other character is kept
LowerChar(c) ==
    CASE c = "A" -> "a" [] c = "B" -> "b" [] c = "C" -> "c" [] c = "D" -> "d"
      [] c = "E" -> "e" [] c = "F" -> "f" [] c = "G" -> "g" [] c = "H" -> "h"
      [] c = "I" -> "i" [] c = "J" -> "j" [] c = "K" -> "k" [] c = "L" -> "l"
      [] c = "M" -> "m" [] c = "N" -> "n" [] c = "O" -> "o" [] c = "P" -> "p"
      [] c = "Q" -> "q" [] c = "R" -> "r" [] c = "S" -> "s" [] c = "T" -> "t"
      [] c = "U" -> "u" [] c = "V" -> "v" [] c = "W" -> "w" [] c = "X" -> "x"
      [] c = "Y" -> "y" [] c = "Z" -> "z"
      [] OTHER -> IF c \in NonAsciiCapitals
                  THEN LowerPairs[CHOOSE i \in DOMAIN LowerPairs : LowerPairs[i][1] = c][2]
                  ELSE c

\* the characters str.lower() skips when it looks for the letters around a
\* capital sigma (the case-ignorable characters: apostrophe, full stop, colon,
\* accents, combining marks, modifier letters, format characters)
CaseIgnorable ==
    {"'", ".", ":", "^", "¨", "­", "¯", "´", "·", "¸", "ʰ", "ʱ",
     "ʲ", "ʳ", "ʴ", "ʵ", "ʶ", "ʷ", "ʸ", "ʹ", "ʺ", "ʻ", "ʼ", "ʽ",
     "ʾ", "ʿ", "ˀ", "ˁ", "˂", "˃", "˄", "˅", "ˆ", "ˇ", "ˈ", "ˉ",
     "ˊ", "ˋ", "ˌ", "ˍ", "ˎ", "ˏ", "ː", "ˑ", "˒", "˓", "˔", "˕",
     "˖", "˗", "˘", "˙", "˚", "˛", "˜", "˝", "˞", "˟", "ˠ", "ˡ",
     "ˢ", "ˣ", "ˤ", "˥", "˦", "˧", "˨", "˩", "˪", "˫", "ˬ", "˭",
     "ˮ", "˯", "˰", "˱", "˲", "˳", "˴", "˵", "˶", "˷", "˸", "˹",
     "˺", "˻", "˼", "˽", "˾", "˿", "΄", "΅", "·", "҃", "҄", "҅",
     "҆", "҇", "҈", "҉", "֑", "֒", "֓", "֔", "֕", "֖", "֗", "֘",
     "֙", "֚", "֛", "֜", "֝", "֞", "֟", "֠", "֡", "֢", "֣", "֤",
     "֥", "֦", "֧", "֨", "֩", "֪", "֫", "֬", "֭", "֮", "֯", "ְ",
     "ֱ", "ֲ", "ֳ", "ִ", "ֵ", "ֶ", "ַ", "ָ", "ֹ", "ֺ", "ֻ", "ּ",
     "ֽ", "ֿ", "ׁ", "ׂ", "ׄ", "ׅ", "ׇ", "״", "ۖ", "ۗ", "ۘ", "ۙ",
     "ۚ", "ۛ", "ۜ", "۝", "۟", "۠", "ۡ", "ۢ", "ۣ", "ۤ", "ۥ", "ۦ",
     "ۧ", "ۨ", "۪", "۫", "۬", "ۭ", "ަ", "ާ", "ި", "ީ", "ު", "ޫ",
     "ެ", "ޭ", "ޮ", "ޯ", "ް", "߫", "߬", "߭", "߮", "߯", "߰", "߱",
     "߲", "߳", "ߴ", "ߵ", "ߺ", "߽", "࢈", "࢐", "࢑", "࢘", "࢙", "࢚",
     "࢛", "࢜", "࢝", "࢞", "࢟", "ࣉ", "࣊", "࣋", "࣌", "࣍", "࣎", "࣏",
     "࣐", "࣑", "࣒", "࣓", "ࣔ", "ࣕ", "ࣖ", "ࣗ", "ࣘ", "ࣙ", "ࣚ", "ࣛ",
     "ࣜ", "ࣝ", "ࣞ", "ࣟ", "࣠", "࣡", "࣢", "ࣣ", "ࣤ", "ࣥ", "ࣦ", "ࣧ",
     "ࣨ", "ࣩ", "࣪", "࣫", "࣬", "࣭", "࣮", "࣯", "ࣰ", "ࣱ", "ࣲ", "ࣳ",
     "ࣴ", "ࣵ", "ࣶ", "ࣷ", "ࣸ", "ࣹ", "ࣺ", "ࣻ", "ࣼ", "ࣽ", "ࣾ", "ࣿ",
     "ঁ", "়", "ু", "ূ", "ৃ", "ৄ", "্", "ৢ", "ৣ", "৾", "ઁ", "ં",
     "઼", "ુ", "ૂ", "ૃ", "ૄ", "ૅ", "ે", "ૈ", "્", "ૢ", "ૣ", "ૺ",
     "ૻ", "ૼ", "૽", "૾", "૿", "ஂ", "ீ", "்", "ಁ", "಼", "ಿ", "ೆ",
     "ೌ", "್", "ೢ", "ೣ", "ඁ", "්", "ි", "ී", "ු", "ූ", "ັ", "ິ",
     "ີ", "ຶ", "ື", "ຸ", "ູ", "຺", "ົ", "ຼ", "ໆ", "່", "້", "໊",
     "໋", "໌", "ໍ", "ྀ", "ཱྀ", "ྂ", "ྃ", "྄", "྆", "྇", "ྍ", "ྎ",
     "ྏ", "ྐ", "ྑ", "ྒ", "ྒྷ", "ྔ", "ྕ", "ྖ", "ྗ", "ྙ", "ྚ", "ྛ",
     "ྜ", "ྜྷ", "ྞ", "ྟ", "ྠ", "ྡ", "ྡྷ", "ྣ", "ྤ", "ྥ", "ྦ", "ྦྷ",
     "ྨ", "ྩ", "ྪ", "ྫ", "ྫྷ", "ྭ", "ྮ", "ྯ", "ྰ", "ྱ", "ྲ", "ླ",
     "ྴ", "ྵ", "ྶ", "ྷ", "ྸ", "ྐྵ", "ྺ", "ྻ", "ྼ", "࿆", "ႂ", "ႅ",
     "ႆ", "ႍ", "ႝ", "ჼ", "឴", "឵", "ិ", "ី", "ឹ", "ឺ", "ុ", "ូ",
     "ួ", "ំ", "៉", "៊", "់", "៌", "៍", "៎", "៏", "័", "៑", "្",
     "៓", "ៗ", "៝", "ᢅ", "ᢆ", "ᢩ", "ᪧ", "᪰", "᪱", "᪲", "᪳", "᪴",
     "᪵", "᪶", "᪷", "᪸", "᪹", "᪺", "᪻", "᪼", "᪽", "᪾", "ᪿ", "ᫀ",
     "᫁", "᫂", "᫃", "᫄", "᫅", "᫆", "᫇", "᫈", "᫉", "᫊", "᫋", "ᫌ",
     "ᫍ", "ᫎ", "ᮀ", "ᮁ", "ᮢ", "ᮣ", "ᮤ", "ᮥ", "ᮨ", "ᮩ", "᮫", "ᮬ",
     "ᮭ", "᯦", "ᯨ", "ᯩ", "ᯭ", "ᯯ", "ᯰ", "ᯱ", "᳐", "᳑", "᳒", "᳔",
     "᳕", "᳖", "᳗", "᳘", "᳙", "᳚", "᳛", "᳜", "᳝", "᳞", "᳟", "᳠",
     "᳢", "᳣", "᳤", "᳥", "᳦", "᳧", "᳨", "᳭", "᳴", "᳸", "᳹", "ᶛ",
     "ᶜ", "ᶝ", "ᶞ", "ᶟ", "ᶠ", "ᶡ", "ᶢ", "ᶣ", "ᶤ", "ᶥ", "ᶦ", "ᶧ",
     "ᶨ", "ᶩ", "ᶪ", "ᶫ", "ᶬ", "ᶭ", "ᶮ", "ᶯ", "ᶰ", "ᶱ", "ᶲ", "ᶳ",
     "ᶴ", "ᶵ", "ᶶ", "ᶷ", "ᶸ", "ᶹ", "ᶺ", "ᶻ", "ᶼ", "ᶽ", "ᶾ", "ᶿ",
     "᷀", "᷁", "᷂", "᷃", "᷄", "᷅", "᷆", "᷇", "᷈", "᷉", "᷊", "᷋",
     "᷌", "᷍", "᷎", "᷏", "᷐", "᷑", "᷒", "ᷓ", "ᷔ", "ᷕ", "ᷖ", "ᷗ",
     "ᷘ", "ᷙ", "ᷚ", "ᷛ", "ᷜ", "ᷝ", "ᷞ", "ᷟ", "ᷠ", "ᷡ", "ᷢ", "ᷣ",
     "ᷤ", "ᷥ", "ᷦ", "ᷧ", "ᷨ", "ᷩ", "ᷪ", "ᷫ", "ᷬ", "ᷭ", "ᷮ", "ᷯ",
     "ᷰ", "ᷱ", "ᷲ", "ᷳ", "ᷴ", "᷵", "᷶", "᷷", "᷸", "᷹", "᷺", "᷻",
     "᷼", "᷽", "᷾", "᷿", "᾽", "᾿", "῀", "῁", "῍", "῎", "῏", "῝",
     "῞", "῟", "῭", "΅", "`", "´", "῾", "ₐ", "ₑ", "ₒ", "ₓ", "ₔ",
     "ₕ", "ₖ", "ₗ", "ₘ", "ₙ", "ₚ", "ₛ", "ₜ", "⃐", "⃑", "⃒", "⃓",
     "⃔", "⃕", "⃖", "⃗", "⃘", "⃙", "⃚", "⃛", "⃜", "⃝", "⃞", "⃟",
     "⃠", "⃡", "⃢", "⃣", "⃤", "⃥", "⃦", "⃧", "⃨", "⃩", "⃪", "⃫",
     "⃬", "⃭", "⃮", "⃯", "⃰", "⳯", "⳰", "⳱", "ⷠ", "ⷡ", "ⷢ", "ⷣ",
     "ⷤ", "ⷥ", "ⷦ", "ⷧ", "ⷨ", "ⷩ", "ⷪ", "ⷫ", "ⷬ", "ⷭ", "ⷮ", "ⷯ",
     "ⷰ", "ⷱ", "ⷲ", "ⷳ", "ⷴ", "ⷵ", "ⷶ", "ⷷ", "ⷸ", "ⷹ", "ⷺ", "ⷻ",
     "ⷼ", "ⷽ", "ⷾ", "ⷿ", "゙", "゚", "゛", "゜", "ゝ", "ゞ", "ー", "ヽ",
     "ヾ", "ꓸ", "ꓹ", "ꓺ", "ꓻ", "ꓼ", "ꓽ", "ꚜ", "ꚝ", "ꚞ", "ꚟ", "꛰",
     "꛱", "ꞈ", "꞉", "꞊", "ꟲ", "ꟳ", "ꟴ", "ꟸ", "ꟹ", "꣄", "ꣅ", "꣠",
     "꣡", "꣢", "꣣", "꣤", "꣥", "꣦", "꣧", "꣨", "꣩", "꣪", "꣫", "꣬",
     "꣭", "꣮", "꣯", "꣰", "꣱", "ꣿ", "ꦀ", "ꦁ", "ꦂ", "꦳", "ꦶ", "ꦷ",
     "ꦸ", "ꦹ", "ꦼ", "ꦽ", "ꧏ", "ꧥ", "ꧦ", "ꪰ", "ꪲ", "ꪳ", "ꪴ", "ꪷ",
     "ꪸ", "ꪾ", "꪿", "꫁", "ꫝ", "ꫬ", "ꫭ", "ꫳ", "ꫴ", "꫶", "ꯥ", "ꯨ",
     "꯭", "﮲", "﮳", "﮴", "﮵", "﮶", "﮷", "﮸", "﮹", "﮺", "﮻", "﮼",
     "﮽", "﮾", "﮿", "﯀", "﯁", "﯂", "﻿", "ﾞ", "ﾟ", "￣", "￹", "￺",
     "￻"}

\* the cased characters that are not case-ignorable: the letters with an upper,
\* lower or title case
Cased ==
    {"A", "B", "C", "D", "E", "F", "G", "H", "I", "J", "K", "L",
     "M", "N", "O", "P", "Q", "R", "S", "T", "U", "V", "W", "X",
     "Y", "Z", "a", "b", "c", "d", "e", "f", "g", "h", "i", "j",
     "k", "l", "m", "n", "o", "p", "q", "r", "s", "t", "u", "v",
     "w", "x", "y", "z", "ª", "µ", "º", "À", "Á", "Â", "Ã", "Ä",
     "Å", "Æ", "Ç", "È", "É", "Ê", "Ë", "Ì", "Í", "Î", "Ï", "Ð",
     "Ñ", "Ò", "Ó", "Ô", "Õ", "Ö", "Ø", "Ù", "Ú", "Û", "Ü", "Ý",
     "Þ", "ß", "à", "á", "â", "ã", "ä", "å", "æ", "ç", "è", "é",
     "ê", "ë", "ì", "í", "î", "ï", "ð", "ñ", "ò", "ó", "ô", "õ",
     "ö", "ø", "ù", "ú", "û", "ü", "ý", "þ", "ÿ", "ƀ", "Ɓ", "Ƃ",
     "ƃ", "Ƅ", "ƅ", "Ɔ", "Ƈ", "ƈ", "Ɖ", "Ɗ", "Ƌ", "ƌ", "ƍ", "Ǝ",
     "Ə", "Ɛ", "Ƒ", "ƒ", "Ɠ", "Ɣ", "ƕ", "Ɩ", "Ɨ", "Ƙ", "ƙ", "ƚ",
     "ƛ", "Ɯ", "Ɲ", "ƞ", "Ɵ", "Ơ", "ơ", "Ƣ", "ƣ", "Ƥ", "ƥ", "Ʀ",
     "Ƨ", "ƨ", "Ʃ", "ƪ", "ƫ", "Ƭ", "ƭ", "Ʈ", "Ư", "ư", "Ʊ", "Ʋ",
     "Ƴ", "ƴ", "Ƶ", "ƶ", "Ʒ", "Ƹ", "ƹ", "ƺ", "Ƽ", "ƽ", "ƾ", "ƿ",
     "Ǆ", "ǅ", "ǆ", "Ǉ", "ǈ", "ǉ", "Ǌ", "ǋ", "ǌ", "Ǎ", "ǎ", "Ǐ",
     "ǐ", "Ǒ", "ǒ", "Ǔ", "ǔ", "Ǖ", "ǖ", "Ǘ", "ǘ", "Ǚ", "ǚ", "Ǜ",
     "ǜ", "ǝ", "Ǟ", "ǟ", "Ǡ", "ǡ", "Ǣ", "ǣ", "Ǥ", "ǥ", "Ǧ", "ǧ",
     "Ǩ", "ǩ", "Ǫ", "ǫ", "Ǭ", "ǭ", "Ǯ", "ǯ", "ǰ", "Ǳ", "ǲ", "ǳ",
     "Ǵ", "ǵ", "Ƕ", "Ƿ", "Ǹ", "ǹ", "Ǻ", "ǻ", "Ǽ", "ǽ", "Ǿ", "ǿ",
     "ʀ", "ʁ", "ʂ", "ʃ", "ʄ", "ʅ", "ʆ", "ʇ", "ʈ", "ʉ", "ʊ", "ʋ",
     "ʌ", "ʍ", "ʎ", "ʏ", "ʐ", "ʑ", "ʒ", "ʓ", "ʕ", "ʖ", "ʗ", "ʘ",
     "ʙ", "ʚ", "ʛ", "ʜ", "ʝ", "ʞ", "ʟ", "ʠ", "ʡ", "ʢ", "ʣ", "ʤ",
     "ʥ", "ʦ", "ʧ", "ʨ", "ʩ", "ʪ", "ʫ", "ʬ", "ʭ", "ʮ", "ʯ", "Ά",
     "Έ", "Ή", "Ί", "Ό", "Ύ", "Ώ", "ΐ", "Α", "Β", "Γ", "Δ", "Ε",
     "Ζ", "Η", "Θ", "Ι", "Κ", "Λ", "Μ", "Ν", "Ξ", "Ο", "Π", "Ρ",
     "Σ", "Τ", "Υ", "Φ", "Χ", "Ψ", "Ω", "Ϊ", "Ϋ", "ά", "έ", "ή",
     "ί", "ΰ", "α", "β", "γ", "δ", "ε", "ζ", "η", "θ", "ι", "κ",
     "λ", "μ", "ν", "ξ", "ο", "π", "ρ", "ς", "σ", "τ", "υ", "φ",
     "χ", "ψ", "ω", "ϊ", "ϋ", "ό", "ύ", "ώ", "Ϗ", "ϐ", "ϑ", "ϒ",
     "ϓ", "ϔ", "ϕ", "ϖ", "ϗ", "Ϙ", "ϙ", "Ϛ", "ϛ", "Ϝ", "ϝ", "Ϟ",
     "ϟ", "Ϡ", "ϡ", "Ϣ", "ϣ", "Ϥ", "ϥ", "Ϧ", "ϧ", "Ϩ", "ϩ", "Ϫ",
     "ϫ", "Ϭ", "ϭ", "Ϯ", "ϯ", "ϰ", "ϱ", "ϲ", "ϳ", "ϴ", "ϵ", "Ϸ",
     "ϸ", "Ϲ", "Ϻ", "ϻ", "ϼ", "Ͻ", "Ͼ", "Ͽ", "Ҁ", "ҁ", "Ҋ", "ҋ",
     "Ҍ", "ҍ", "Ҏ", "ҏ", "Ґ", "ґ", "Ғ", "ғ", "Ҕ", "ҕ", "Җ", "җ",
     "Ҙ", "ҙ", "Қ", "қ", "Ҝ", "ҝ", "Ҟ", "ҟ", "Ҡ", "ҡ", "Ң", "ң",
     "Ҥ", "ҥ", "Ҧ", "ҧ", "Ҩ", "ҩ", "Ҫ", "ҫ", "Ҭ", "ҭ", "Ү", "ү",
     "Ұ", "ұ", "Ҳ", "ҳ", "Ҵ", "ҵ", "Ҷ", "ҷ", "Ҹ", "ҹ", "Һ", "һ",
     "Ҽ", "ҽ", "Ҿ", "ҿ", "Ӏ", "Ӂ", "ӂ", "Ӄ", "ӄ", "Ӆ", "ӆ", "Ӈ",
     "ӈ", "Ӊ", "ӊ", "Ӌ", "ӌ", "Ӎ", "ӎ", "ӏ", "Ӑ", "ӑ", "Ӓ", "ӓ",
     "Ӕ", "ӕ", "Ӗ", "ӗ", "Ә", "ә", "Ӛ", "ӛ", "Ӝ", "ӝ", "Ӟ", "ӟ",
     "Ӡ", "ӡ", "Ӣ", "ӣ", "Ӥ", "ӥ", "Ӧ", "ӧ", "Ө", "ө", "Ӫ", "ӫ",
     "Ӭ", "ӭ", "Ӯ", "ӯ", "Ӱ", "ӱ", "Ӳ", "ӳ", "Ӵ", "ӵ", "Ӷ", "ӷ",
     "Ӹ", "ӹ", "Ӻ", "ӻ", "Ӽ", "ӽ", "Ӿ", "ӿ", "ր", "ց", "ւ", "փ",
     "ք", "օ", "ֆ", "և", "ֈ", "Ⴀ", "Ⴁ", "Ⴂ", "Ⴃ", "Ⴄ", "Ⴅ", "Ⴆ",
     "Ⴇ", "Ⴈ", "Ⴉ", "Ⴊ", "Ⴋ", "Ⴌ", "Ⴍ", "Ⴎ", "Ⴏ", "Ⴐ", "Ⴑ", "Ⴒ",
     "Ⴓ", "Ⴔ", "Ⴕ", "Ⴖ", "Ⴗ", "Ⴘ", "Ⴙ", "Ⴚ", "Ⴛ", "Ⴜ", "Ⴝ", "Ⴞ",
     "Ⴟ", "Ⴠ", "Ⴡ", "Ⴢ", "Ⴣ", "Ⴤ", "Ⴥ", "Ⴧ", "Ⴭ", "ა", "ბ", "გ",
     "დ", "ე", "ვ", "ზ", "თ", "ი", "კ", "ლ", "მ", "ნ", "ო", "პ",
     "ჟ", "რ", "ს", "ტ", "უ", "ფ", "ქ", "ღ", "ყ", "შ", "ჩ", "ც",
     "ძ", "წ", "ჭ", "ხ", "ჯ", "ჰ", "ჱ", "ჲ", "ჳ", "ჴ", "ჵ", "ჶ",
     "ჷ", "ჸ", "ჹ", "ჺ", "ჽ", "ჾ", "ჿ", "Ꭰ", "Ꭱ", "Ꭲ", "Ꭳ", "Ꭴ",
     "Ꭵ", "Ꭶ", "Ꭷ", "Ꭸ", "Ꭹ", "Ꭺ", "Ꭻ", "Ꭼ", "Ꭽ", "Ꭾ", "Ꭿ", "Ꮀ",
     "Ꮁ", "Ꮂ", "Ꮃ", "Ꮄ", "Ꮅ", "Ꮆ", "Ꮇ", "Ꮈ", "Ꮉ", "Ꮊ", "Ꮋ", "Ꮌ",
     "Ꮍ", "Ꮎ", "Ꮏ", "Ꮐ", "Ꮑ", "Ꮒ", "Ꮓ", "Ꮔ", "Ꮕ", "Ꮖ", "Ꮗ", "Ꮘ",
     "Ꮙ", "Ꮚ", "Ꮛ", "Ꮜ", "Ꮝ", "Ꮞ", "Ꮟ", "Ꮠ", "Ꮡ", "Ꮢ", "Ꮣ", "Ꮤ",
     "Ꮥ", "Ꮦ", "Ꮧ", "Ꮨ", "Ꮩ", "Ꮪ", "Ꮫ", "Ꮬ", "Ꮭ", "Ꮮ", "Ꮯ", "Ꮰ",
     "Ꮱ", "Ꮲ", "Ꮳ", "Ꮴ", "Ꮵ", "Ꮶ", "Ꮷ", "Ꮸ", "Ꮹ", "Ꮺ", "Ꮻ", "Ꮼ",
     "Ꮽ", "Ꮾ", "Ꮿ", "Ᏸ", "Ᏹ", "Ᏺ", "Ᏻ", "Ᏼ", "Ᏽ", "ᏸ", "ᏹ", "ᏺ",
     "ᏻ", "ᏼ", "ᏽ", "ᲀ", "ᲁ", "ᲂ", "ᲃ", "ᲄ", "ᲅ", "ᲆ", "ᲇ", "ᲈ",
     "Ა", "Ბ", "Გ", "Დ", "Ე", "Ვ", "Ზ", "Თ", "Ი", "Კ", "Ლ", "Მ",
     "Ნ", "Ო", "Პ", "Ჟ", "Რ", "Ს", "Ტ", "Უ", "Ფ", "Ქ", "Ღ", "Ყ",
     "Შ", "Ჩ", "Ც", "Ძ", "Წ", "Ჭ", "Ხ", "Ჯ", "Ჰ", "Ჱ", "Ჲ", "Ჳ",
     "Ჴ", "Ჵ", "Ჶ", "Ჷ", "Ჸ", "Ჹ", "Ჺ", "Ჽ", "Ჾ", "Ჿ", "ᶀ", "ᶁ",
     "ᶂ", "ᶃ", "ᶄ", "ᶅ", "ᶆ", "ᶇ", "ᶈ", "ᶉ", "ᶊ", "ᶋ", "ᶌ", "ᶍ",
     "ᶎ", "ᶏ", "ᶐ", "ᶑ", "ᶒ", "ᶓ", "ᶔ", "ᶕ", "ᶖ", "ᶗ", "ᶘ", "ᶙ",
     "ᶚ", "Ẁ", "ẁ", "Ẃ", "ẃ", "Ẅ", "ẅ", "Ẇ", "ẇ", "Ẉ", "ẉ", "Ẋ",
     "ẋ", "Ẍ", "ẍ", "Ẏ", "ẏ", "Ẑ", "ẑ", "Ẓ", "ẓ", "Ẕ", "ẕ", "ẖ",
     "ẗ", "ẘ", "ẙ", "ẚ", "ẛ", "ẜ", "ẝ", "ẞ", "ẟ", "Ạ", "ạ", "Ả",
     "ả", "Ấ", "ấ", "Ầ", "ầ", "Ẩ", "ẩ", "Ẫ", "ẫ", "Ậ", "ậ", "Ắ",
     "ắ", "Ằ", "ằ", "Ẳ", "ẳ", "Ẵ", "ẵ", "Ặ", "ặ", "Ẹ", "ẹ", "Ẻ",
     "ẻ", "Ẽ", "ẽ", "Ế", "ế", "Ề", "ề", "Ể", "ể", "Ễ", "ễ", "Ệ",
     "ệ", "Ỉ", "ỉ", "Ị", "ị", "Ọ", "ọ", "Ỏ", "ỏ", "Ố", "ố", "Ồ",
     "ồ", "Ổ", "ổ", "Ỗ", "ỗ", "Ộ", "ộ", "Ớ", "ớ", "Ờ", "ờ", "Ở",
     "ở", "Ỡ", "ỡ", "Ợ", "ợ", "Ụ", "ụ", "Ủ", "ủ", "Ứ", "ứ", "Ừ",
     "ừ", "Ử", "ử", "Ữ", "ữ", "Ự", "ự", "Ỳ", "ỳ", "Ỵ", "ỵ", "Ỷ",
     "ỷ", "Ỹ", "ỹ", "Ỻ", "ỻ", "Ỽ", "ỽ", "Ỿ", "ỿ", "ᾀ", "ᾁ", "ᾂ",
     "ᾃ", "ᾄ", "ᾅ", "ᾆ", "ᾇ", "ᾈ", "ᾉ", "ᾊ", "ᾋ", "ᾌ", "ᾍ", "ᾎ",
     "ᾏ", "ᾐ", "ᾑ", "ᾒ", "ᾓ", "ᾔ", "ᾕ", "ᾖ", "ᾗ", "ᾘ", "ᾙ", "ᾚ",
     "ᾛ", "ᾜ", "ᾝ", "ᾞ", "ᾟ", "ᾠ", "ᾡ", "ᾢ", "ᾣ", "ᾤ", "ᾥ", "ᾦ",
     "ᾧ", "ᾨ", "ᾩ", "ᾪ", "ᾫ", "ᾬ", "ᾭ", "ᾮ", "ᾯ", "ᾰ", "ᾱ", "ᾲ",
     "ᾳ", "ᾴ", "ᾶ", "ᾷ", "Ᾰ", "Ᾱ", "Ὰ", "Ά", "ᾼ", "ι", "ῂ", "ῃ",
     "ῄ", "ῆ", "ῇ", "Ὲ", "Έ", "Ὴ", "Ή", "ῌ", "ῐ", "ῑ", "ῒ", "ΐ",
     "ῖ", "ῗ", "Ῐ", "Ῑ", "Ὶ", "Ί", "ῠ", "ῡ", "ῢ", "ΰ", "ῤ", "ῥ",
     "ῦ", "ῧ", "Ῠ", "Ῡ", "Ὺ", "Ύ", "Ῥ", "ῲ", "ῳ", "ῴ", "ῶ", "ῷ",
     "Ὸ", "Ό", "Ὼ", "Ώ", "ῼ", "Ↄ", "ↄ", "Ⓐ", "Ⓑ", "Ⓒ", "Ⓓ", "Ⓔ",
     "Ⓕ", "Ⓖ", "Ⓗ", "Ⓘ", "Ⓙ", "Ⓚ", "Ⓛ", "Ⓜ", "Ⓝ", "Ⓞ", "Ⓟ", "Ⓠ",
     "Ⓡ", "Ⓢ", "Ⓣ", "Ⓤ", "Ⓥ", "Ⓦ", "Ⓧ", "Ⓨ", "Ⓩ", "ⓐ", "ⓑ", "ⓒ",
     "ⓓ", "ⓔ", "ⓕ", "ⓖ", "ⓗ", "ⓘ", "ⓙ", "ⓚ", "ⓛ", "ⓜ", "ⓝ", "ⓞ",
     "ⓟ", "ⓠ", "ⓡ", "ⓢ", "ⓣ", "ⓤ", "ⓥ", "ⓦ", "ⓧ", "ⓨ", "ⓩ", "Ⲁ",
     "ⲁ", "Ⲃ", "ⲃ", "Ⲅ", "ⲅ", "Ⲇ", "ⲇ", "Ⲉ", "ⲉ", "Ⲋ", "ⲋ", "Ⲍ",
     "ⲍ", "Ⲏ", "ⲏ", "Ⲑ", "ⲑ", "Ⲓ", "ⲓ", "Ⲕ", "ⲕ", "Ⲗ", "ⲗ", "Ⲙ",
     "ⲙ", "Ⲛ", "ⲛ", "Ⲝ", "ⲝ", "Ⲟ", "ⲟ", "Ⲡ", "ⲡ", "Ⲣ", "ⲣ", "Ⲥ",
     "ⲥ", "Ⲧ", "ⲧ", "Ⲩ", "ⲩ", "Ⲫ", "ⲫ", "Ⲭ", "ⲭ", "Ⲯ", "ⲯ", "Ⲱ",
     "ⲱ", "Ⲳ", "ⲳ", "Ⲵ", "ⲵ", "Ⲷ", "ⲷ", "Ⲹ", "ⲹ", "Ⲻ", "ⲻ", "Ⲽ",
     "ⲽ", "Ⲿ", "ⲿ", "Ⳁ", "ⳁ", "Ⳃ", "ⳃ", "Ⳅ", "ⳅ", "Ⳇ", "ⳇ", "Ⳉ",
     "ⳉ", "Ⳋ", "ⳋ", "Ⳍ", "ⳍ", "Ⳏ", "ⳏ", "Ⳑ", "ⳑ", "Ⳓ", "ⳓ", "Ⳕ",
     "ⳕ", "Ⳗ", "ⳗ", "Ⳙ", "ⳙ", "Ⳛ", "ⳛ", "Ⳝ", "ⳝ", "Ⳟ", "ⳟ", "Ⳡ",
     "ⳡ", "Ⳣ", "ⳣ", "ⳤ", "Ⳬ", "ⳬ", "Ⳮ", "ⳮ", "Ⳳ", "ⳳ", "Ꚁ", "ꚁ",
     "Ꚃ", "ꚃ", "Ꚅ", "ꚅ", "Ꚇ", "ꚇ", "Ꚉ", "ꚉ", "Ꚋ", "ꚋ", "Ꚍ", "ꚍ",
     "Ꚏ", "ꚏ", "Ꚑ", "ꚑ", "Ꚓ", "ꚓ", "Ꚕ", "ꚕ", "Ꚗ", "ꚗ", "Ꚙ", "ꚙ",
     "Ꚛ", "ꚛ", "Ꞁ", "ꞁ", "Ꞃ", "ꞃ", "Ꞅ", "ꞅ", "Ꞇ", "ꞇ", "Ꞌ", "ꞌ",
     "Ɥ", "ꞎ", "Ꞑ", "ꞑ", "Ꞓ", "ꞓ", "ꞔ", "ꞕ", "Ꞗ", "ꞗ", "Ꞙ", "ꞙ",
     "Ꞛ", "ꞛ", "Ꞝ", "ꞝ", "Ꞟ", "ꞟ", "Ꞡ", "ꞡ", "Ꞣ", "ꞣ", "Ꞥ", "ꞥ",
     "Ꞧ", "ꞧ", "Ꞩ", "ꞩ", "Ɦ", "Ɜ", "Ɡ", "Ɬ", "Ɪ", "ꞯ", "Ʞ", "Ʇ",
     "Ʝ", "Ꭓ", "Ꞵ", "ꞵ", "Ꞷ", "ꞷ", "Ꞹ", "ꞹ", "Ꞻ", "ꞻ", "Ꞽ", "ꞽ",
     "Ꞿ", "ꞿ", "Ꟁ", "ꟁ", "Ꟃ", "ꟃ", "Ꞔ", "Ʂ", "Ᶎ", "Ꟈ", "ꟈ", "Ꟊ",
     "ꟊ", "Ꟑ", "ꟑ", "ꟓ", "ꟕ", "Ꟗ", "ꟗ", "Ꟙ", "ꟙ", "Ꟶ", "ꟶ", "ꟺ",
     "ꮀ", "ꮁ", "ꮂ", "ꮃ", "ꮄ", "ꮅ", "ꮆ", "ꮇ", "ꮈ", "ꮉ", "ꮊ", "ꮋ",
     "ꮌ", "ꮍ", "ꮎ", "ꮏ", "ꮐ", "ꮑ", "ꮒ", "ꮓ", "ꮔ", "ꮕ", "ꮖ", "ꮗ",
     "ꮘ", "ꮙ", "ꮚ", "ꮛ", "ꮜ", "ꮝ", "ꮞ", "ꮟ", "ꮠ", "ꮡ", "ꮢ", "ꮣ",
     "ꮤ", "ꮥ", "ꮦ", "ꮧ", "ꮨ", "ꮩ", "ꮪ", "ꮫ", "ꮬ", "ꮭ", "ꮮ", "ꮯ",
     "ꮰ", "ꮱ", "ꮲ", "ꮳ", "ꮴ", "ꮵ", "ꮶ", "ꮷ", "ꮸ", "ꮹ", "ꮺ", "ꮻ",
     "ꮼ", "ꮽ", "ꮾ", "ꮿ"}

\* the capital sigma at s[i] ends a word: the nearest character before it that
\* is not case-ignorable is cased, and the nearest one after it, if any, is not
FinalSigma(s, i) ==
    LET before == {j \in 1..(i - 1) : s[j] \notin CaseIgnorable}
        after == {j \in (i + 1)..Len(s) : s[j] \notin CaseIgnorable}
    IN  /\ before # {}
        /\ s[CHOOSE j \in before : \A k \in before : k <= j] \in Cased
        /\ \/ after = {}
           \/ s[CHOOSE j \in after : \A k \in after : j <= k] \notin Cased

\* str.lower(): character by character, but for a capital sigma that ends a
\* word, which becomes the final sigma
lower(s) ==
    [i \in DOMAIN s |->
        IF s[i] = "Σ" /\ FinalSigma(s, i) THEN "ς" ELSE LowerChar(s[i])]

\* the characters str.strip() removes: space, \n, \t, \r, \f, and written as
\* they are U+000B, U+001C, U+001D, U+001E, U+001F, U+0085, U+00A0 and U+1680
\* (Python also removes U+2000-U+200A, U+2028, U+2029, U+202F, U+205F and
\* U+3000, which a string of this module cannot hold)
IsSpace(c) ==
    c \in {" ", "\n", "\t", "\r", "\f",
           "", "", "", "", "", "", " ", " "}

RECURSIVE lstrip(_)
lstrip(s) == IF s # <<>> /\ IsSpace(Head(s)) THEN lstrip(Tail(s)) ELSE s

RECURSIVE rstrip(_)
rstrip(s) ==
    IF s # <<>> /\ IsSpace(s[Len(s)]) THEN rstrip(SubSeq(s, 1, Len(s) - 1)) ELSE s

\* str.strip()
strip(s) == rstrip(lstrip(s))

RECURSIVE SelectRows(_, _)
\* the elements of a sequence that satisfy a per-index test, in order
SelectRows(s, keep) ==
    IF s = <<>> THEN <<>>
    ELSE LET rest == SelectRows(Tail(s), [i \in 1..(Len(s) - 1) |-> keep[i + 1]])
         IN  IF keep[1] THEN <<Head(s)>> \o rest ELSE rest

----------------------------------------------------------------------------
(* _call_llm_with_retry *)

retries == 3
InitialDelay == 5

RateLimit == "ResourceExhausted"
ApiErrors == {RateLimit, "OtherError"}

\* state of one call of _call_llm_with_retry: loop index, next delay, what each
\* call of api_call_fnc ended with, the time.sleep calls made, how the call
\* stands ("sleeping": inside time.sleep(delay), i and delay not yet advanced)
FreshLlm ==
    [i |-> 0, delay |-> InitialDelay, attempts |-> <<>>, sleeps |-> <<>>,
     status |-> "running", error |-> None]

\* RetryIteration with `except Exception` in place of `except ResourceExhausted`
RetryIterationAnyError(l, outcome) ==
    IF outcome = "ok"
    THEN [l EXCEPT !.attempts = Append(@, outcome), !.status = "returned"]
    ELSE IF l.i < retries - 1
    THEN [l EXCEPT !.attempts = Append(@, outcome),
                   !.sleeps = Append(@, l.delay),
                   !.status = "sleeping"]
    ELSE [l EXCEPT !.attempts = Append(@, outcome),
                   !.status = "raised", !.error = outcome]

\* one call of api_call_fnc in the for loop, up to the return, the raise or the
\* call of time.sleep(delay); outcome is "ok" or the exception api_call_fnc raised
RetryIteration(l, outcome) ==
    IF outcome = "ok"
    THEN [l EXCEPT !.attempts = Append(@, outcome), !.status = "returned"]
    ELSE IF outcome = RateLimit
    THEN IF l.i < retries - 1
         THEN [l EXCEPT !.attempts = Append(@, outcome),
                        !.sleeps = Append(@, l.delay),
                        !.status = "sleeping"]
         ELSE [l EXCEPT !.attempts = Append(@, outcome),
                        !.status = "raised", !.error = outcome]
    ELSE [l EXCEPT !.attempts = Append(@, outcome),
                   !.status = "raised", !.error = outcome]

\* RetrySleepReturns without `delay *= 2`
RetrySleepReturnsConstantDelay(l) ==
    [l EXCEPT !.i = l.i + 1, !.status = "running"]

\* time.sleep(delay) returns: `delay *= 2` and the next iteration of the loop
RetrySleepReturns(l) ==
    [l EXCEPT !.delay = l.delay * 2, !.i = l.i + 1, !.status = "running"]

\* no call of _call_llm_with_retry has been made, or none is left on the stack
NoLlm == [FreshLlm EXCEPT !.status = "idle"]

\* the wrapper call an attempt belongs to: the one in progress, or a new one
CurrentLlm(q) == IF q.llm.status = "running" THEN q.llm ELSE FreshLlm

\* the request is inside time.sleep(delay) of its retry loop
Sleeping(q) == q.llm.status = "sleeping"

----------------------------------------------------------------------------
(* llm_client: what each NLU-facing function does with the NLU reply *)

\* check_for_red_flags.api_call without the strip()
RedFlagApiCallNoStrip(reply) == lower(reply) = <<"t", "r", "u", "e">>

\* check_for_red_flags.api_call: response.text.strip().lower() == "true"
RedFlagApiCall(reply) == lower(strip(reply)) = <<"t", "r", "u", "e">>

\* get_specialty_for_symptoms.api_call: response.text.strip()
SpecialtyApiCall(reply) == strip(reply)

\* Values of json.loads. Python None is JNull (json.loads("null") is None).
JNull == [js |-> "null"]
JEmptyObject == [js |-> "object", size |-> 0]
JObject(fields) == [js |-> "object", size |-> Cardinality(DOMAIN fields), obj |-> fields]
JArray(n) == [js |-> "array", size |-> n]
JString(n) == [js |-> "string", size |-> n]
JNumber(n) == [js |-> "number", n |-> n]

\* A reply of the match step: its body is JSON text for `value` or is not JSON
\* at all (json |-> FALSE), and it may be wrapped in a ```json fence.
MatchReply(fenced, json, value) == [fenced |-> fenced, json |-> json, value |-> value]

\* MatchApiCall that hands back the raw text when json.loads fails
MatchApiCallKeepsRawText(mt, reply) ==
    IF mt = "gemini"
    THEN IF reply.json THEN reply.value ELSE JString(3)
    ELSE IF reply.json /\ ~reply.fenced THEN reply.value ELSE JString(3)

\* find_best_match.api_call: gemini removes the fence before json.loads, openai
\* does not; json.JSONDecodeError becomes None
MatchApiCall(mt, reply) ==
    IF mt = "gemini"
    THEN IF reply.json THEN reply.value ELSE JNull
    ELSE IF reply.json /\ ~reply.fenced THEN reply.value ELSE JNull

\* not v, for v a value of json.loads
Falsy(v) ==
    \/ v.js = "null"
    \/ v.js \in {"object", "array", "string"} /\ v.size = 0
    \/ v.js = "number" /\ v.n = 0

RECURSIVE FirstWithDocId(_, _)
\* the loop of find_best_match over the supplied records
FirstWithDocId(apps, doc_id) ==
    IF apps = <<>> THEN NoneObj
    ELSE IF Get(Head(apps), "doc_id") = doc_id THEN Head(apps)
    ELSE FirstWithDocId(Tail(apps), doc_id)

\* BestMatchLookup that returns the NLU's object without the cross-check
BestMatchLookupTrustsReply(best_match, apps) ==
    IF Falsy(best_match) THEN [raised |-> FALSE, value |-> NoneObj]
    ELSE IF best_match.js # "object" THEN [raised |-> TRUE, error |-> "AttributeError"]
    ELSE IF ~Truthy(Get(best_match.obj, "doc_id")) THEN [raised |-> FALSE, value |-> NoneObj]
    ELSE [raised |-> FALSE, value |-> best_match.obj]

\* BestMatchLookup that updates the local record with the fields of the reply
BestMatchLookupMergesReply(best_match, apps) ==
    IF Falsy(best_match) THEN [raised |-> FALSE, value |-> NoneObj]
    ELSE IF best_match.js # "object" THEN [raised |-> TRUE, error |-> "AttributeError"]
    ELSE IF ~Truthy(Get(best_match.obj, "doc_id")) THEN [raised |-> FALSE, value |-> NoneObj]
    ELSE LET app == FirstWithDocId(apps, best_match.obj.doc_id)
         IN  [raised |-> FALSE,
              value |-> IF app = NoneObj THEN NoneObj
                        ELSE [k \in DOMAIN app \cup DOMAIN best_match.obj |->
                                 IF k \in DOMAIN best_match.obj
                                 THEN best_match.obj[k] ELSE app[k]]]

\* find_best_match after _call_llm_with_retry returned best_match
BestMatchLookup(best_match, apps) ==
    IF Falsy(best_match) THEN [raised |-> FALSE, value |-> NoneObj]
    ELSE IF best_match.js # "object" THEN [raised |-> TRUE, error |-> "AttributeError"]
    ELSE IF ~Truthy(Get(best_match.obj, "doc_id")) THEN [raised |-> FALSE, value |-> NoneObj]
    ELSE [raised |-> FALSE, value |-> FirstWithDocId(apps, best_match.obj.doc_id)]

NO_SIMILAR == "After reviewing your past medical records, no appointments with similar symptoms were found."
WAIT_FOR_APPROVAL == "You must wait for a doctor's final approval."
CONSULT_A_DOCTOR == "Please consult a doctor for an accurate diagnosis."

\* "No specific prescriptions were listed."
NO_PRESCRIPTIONS ==
    <<"N", "o", " ", "s", "p", "e", "c", "i", "f", "i",
      "c", " ", "p", "r", "e", "s", "c", "r", "i", "p",
      "t", "i", "o", "n", "s", " ", "w", "e", "r", "e",
      " ", "l", "i", "s", "t", "e", "d", ".">>

\* Python values of the 'prescriptions' field: a list, and a dict or a str as
\* one of its entries
PyList(items) == [py |-> "list", items |-> items]
PyDict(items) == [py |-> "dict", items |-> items]
PyStr(text) == [py |-> "str", text |-> text]

\* llm_client.py 209-213: the line of one prescription that has a name
PrescriptionLine(p) ==
    LET p_str == strip(<<"-", " ">> \o p.name \o <<" ">>
                       \o (IF "strength" \in DOMAIN p THEN p.strength ELSE <<>>))
    IN  IF "purpose" \in DOMAIN p /\ p.purpose # <<>>
        THEN p_str \o <<" ", "(", "f", "o", "r", " ">> \o p.purpose \o <<")">>
        ELSE p_str

RECURSIVE Join(_)
\* '\n'.join(prescription_list)
Join(lines) ==
    IF lines = <<>> THEN <<>>
    ELSE IF Len(lines) = 1 THEN Head(lines)
    ELSE Head(lines) \o <<"\n">> \o Join(Tail(lines))

\* llm_client.py 205-216: prescription_str of a matched record. Iterating None
\* raises TypeError; an entry that is not a mapping has no get()
PrescriptionStr(matched_appointment) ==
    IF matched_appointment = NoneObj THEN [raised |-> FALSE, value |-> <<>>]
    ELSE LET prescriptions == IF "prescriptions" \in DOMAIN matched_appointment
                              THEN matched_appointment.prescriptions ELSE PyList(<<>>)
         IN  IF prescriptions.py = "None" THEN [raised |-> TRUE, error |-> "TypeError"]
             ELSE IF \E i \in DOMAIN prescriptions.items : prescriptions.items[i].py # "dict"
             THEN [raised |-> TRUE, error |-> "AttributeError"]
             ELSE LET named == SelectRows(prescriptions.items,
                                   [i \in DOMAIN prescriptions.items |->
                                       /\ "name" \in DOMAIN prescriptions.items[i].items
                                       /\ prescriptions.items[i].items.name # <<>>])
                      prescription_list == [i \in DOMAIN named |-> PrescriptionLine(named[i].items)]
                  IN  [raised |-> FALSE,
                       value |-> IF prescription_list # <<>>
                                 THEN Join(prescription_list) ELSE NO_PRESCRIPTIONS]

\* generate_combined_response that picks the disclaimer by the matched record
CombinedPromptDisclaimerByMatch(user_input, matched_appointment, history_doctor_name, routed_doctor_name) ==
    [user_input |-> user_input,
     ai_suggestion_text |->
         IF matched_appointment = NoneObj THEN [text |-> NO_SIMILAR]
         ELSE [text |-> "Based on your symptoms, I found a past appointment",
               doctor |-> IF Truthy(history_doctor_name) THEN history_doctor_name ELSE "the doctor",
               date |-> Get(matched_appointment, "appointmentDate"),
               symptoms |-> Get(matched_appointment, "symptomsText"),
               prescription_str |-> PrescriptionStr(matched_appointment).value],
     routing_message |->
         IF Truthy(routed_doctor_name)
         THEN [text |-> "This suggestion has now been forwarded to a real doctor",
               doctor |-> routed_doctor_name]
         ELSE [text |-> ""],
     final_call_to_action |->
         IF matched_appointment # NoneObj THEN WAIT_FOR_APPROVAL ELSE CONSULT_A_DOCTOR]

\* generate_combined_response: the three parts of the synthesis request, when
\* the prescriptions can be listed
CombinedPrompt(user_input, matched_appointment, history_doctor_name, routed_doctor_name) ==
    [user_input |-> user_input,
     ai_suggestion_text |->
        IF matched_appointment = NoneObj
        THEN [text |-> NO_SIMILAR]
        ELSE [text |-> "Based on your symptoms, I found a past appointment",
              doctor |-> IF Truthy(history_doctor_name) THEN history_doctor_name ELSE "the doctor",
              date |-> Get(matched_appointment, "appointmentDate"),
              symptoms |-> Get(matched_appointment, "symptomsText"),
              prescription_str |-> PrescriptionStr(matched_appointment).value],
     routing_message |->
        IF Truthy(routed_doctor_name)
        THEN [text |-> "This suggestion has now been forwarded to a real doctor",
              doctor |-> routed_doctor_name]
        ELSE [text |-> ""],
     final_call_to_action |->
        IF Truthy(routed_doctor_name) THEN WAIT_FOR_APPROVAL ELSE CONSULT_A_DOCTOR]

\* the text the NLU generates for a synthesis request
Generated(prompt) == [py |-> "str", generated_from |-> prompt]
Literal(s) == [py |-> "str", literal |-> s]

----------------------------------------------------------------------------
(* firebase_client *)

\* get_patient_appointments_by_id
get_patient_appointments_by_id(patient_id) ==
    IF ~db THEN <<>>
    ELSE SelectRows(appointments,
                    [i \in DOMAIN appointments |-> Get(appointments[i], "patientId") = patient_id])

RECURSIVE StaffDocument(_, _)
\* db.collection('staffs').document(staff_id).get(): the document or NoneObj
StaffDocument(docs, staff_id) ==
    IF docs = <<>> THEN NoneObj
    ELSE IF Head(docs).id = staff_id THEN Head(docs)
    ELSE StaffDocument(Tail(docs), staff_id)

\* get_doctor_name; ok is FALSE when the store raises, which the function swallows
get_doctor_name(staff_id, ok) ==
    IF ~db THEN "a doctor"
    ELSE IF ~ok THEN "a doctor"
    ELSE LET doc == StaffDocument(staffs, staff_id)
         IN  IF doc = NoneObj THEN "a doctor"
             ELSE IF "name" \in DOMAIN doc.data THEN doc.data.name ELSE "a doctor"

\* .where('role', '==', 'Doctor'): a document without the field is not selected
IsDoctor(doc) == "role" \in DOMAIN doc.data /\ doc.data.role = "Doctor"

\* pd.DataFrame(doctors_list): the columns are the keys of any row; a cell of a
\* row that lacks the key is NaN; Series.get of a column that does not exist is None
Columns(rows) == UNION {DOMAIN rows[i] : i \in DOMAIN rows}
Cell(rows, row, col) ==
    IF col \notin Columns(rows) THEN None
    ELSE IF col \in DOMAIN row THEN row[col] ELSE NaN

\* find_doctor_by_specialty that compares the specialty as it is written
FindDoctorCaseSensitive(specialty, ok) ==
    IF ~db \/ specialty = <<>> THEN <<None, None>>
    ELSE IF ~ok THEN <<None, None>>
    ELSE LET staffs_ref == SelectRows(staffs, [i \in DOMAIN staffs |-> IsDoctor(staffs[i])])
             doctors_list == [i \in DOMAIN staffs_ref |-> staffs_ref[i].data]
         IN  IF doctors_list = <<>> THEN <<None, None>>
             ELSE IF "specialization" \notin Columns(doctors_list) THEN <<None, None>>
             ELSE LET matching_doctors ==
                          SelectRows(doctors_list,
                              [i \in DOMAIN doctors_list |->
                                  /\ "specialization" \in DOMAIN doctors_list[i]
                                  /\ doctors_list[i].specialization = specialty])
                  IN  IF matching_doctors # <<>>
                      THEN <<Cell(doctors_list, matching_doctors[1], "staffId"),
                             Cell(doctors_list, matching_doctors[1], "name")>>
                      ELSE <<None, None>>

\* find_doctor_by_specialty; ok is FALSE when the store raises, which the function swallows
find_doctor_by_specialty(specialty, ok) ==
    IF ~db \/ specialty = <<>> THEN <<None, None>>
    ELSE IF ~ok THEN <<None, None>>
    ELSE LET staffs_ref == SelectRows(staffs, [i \in DOMAIN staffs |-> IsDoctor(staffs[i])])
             doctors_list == [i \in DOMAIN staffs_ref |-> staffs_ref[i].data]
         IN  IF doctors_list = <<>> THEN <<None, None>>
             ELSE IF "specialization" \notin Columns(doctors_list) THEN <<None, None>>
             ELSE LET matching_doctors ==
                          SelectRows(doctors_list,
                              [i \in DOMAIN doctors_list |->
                                  /\ "specialization" \in DOMAIN doctors_list[i]
                                  /\ lower(doctors_list[i].specialization) = lower(specialty)])
                  IN  IF matching_doctors # <<>>
                      THEN <<Cell(doctors_list, matching_doctors[1], "staffId"),
                             Cell(doctors_list, matching_doctors[1], "name")>>
                      ELSE <<None, None>>

\* create_pending_approval that keys the record on its arguments: a second call
\* with the same arguments adds nothing
CreatePendingApprovalIdempotent(patient_id, doctor_id, symptoms, ai_output, ok) ==
    IF ~db THEN pendingApprovals
    ELSE IF ~ok THEN pendingApprovals
    ELSE IF \E i \in DOMAIN pendingApprovals :
                /\ pendingApprovals[i].patientId = patient_id
                /\ pendingApprovals[i].staffId = doctor_id
                /\ pendingApprovals[i].symptoms = symptoms
                /\ pendingApprovals[i].aiOutput = ai_output
    THEN pendingApprovals
    ELSE Append(pendingApprovals,
                [id |-> Len(pendingApprovals) + 1,
                 patientId |-> patient_id,
                 staffId |-> doctor_id,
                 symptoms |-> symptoms,
                 aiOutput |-> ai_output,
                 status |-> "Pending",
                 timestamp |-> "SERVER_TIMESTAMP"])

\* create_pending_approval: the collection after the call; ok is FALSE when the
\* store raises, which the function swallows
create_pending_approval(patient_id, doctor_id, symptoms, ai_output, ok) ==
    IF ~db THEN pendingApprovals
    ELSE IF ~ok THEN pendingApprovals
    ELSE Append(pendingApprovals,
                [id |-> Len(pendingApprovals) + 1,
                 patientId |-> patient_id,
                 staffId |-> doctor_id,
                 symptoms |-> symptoms,
                 aiOutput |-> ai_output,
                 status |-> "Pending",
                 timestamp |-> "SERVER_TIMESTAMP"])

----------------------------------------------------------------------------
(* main *)

EMERGENCY_WARNING == "**EMERGENCY WARNING**...\nBased on your symptoms, you may require immediate medical attention.\nPlease contact your local emergency services or go to the nearest hospital right away."
NOT_INITIALIZED == "Error: Clients are not initialized. Please run initialize_clients() first."

\* _format_response_to_string on what generate_combined_response returns: a str
\* is returned as it is, None becomes str(None); no caller passes a dict
_format_response_to_string(response_data) ==
    IF response_data = NoneObj THEN Literal("None") ELSE response_data

----------------------------------------------------------------------------
(* The inputs the model draws from *)

\* the (patient_id, message) pairs a request may carry
SymptomReports ==
    {[patient_id |-> "p1", message |-> "sore throat and fever"],
     [patient_id |-> "p2", message |-> "itchy rash"]}

\* entries of 'prescriptions': with name, strength and purpose; without a name
\* (not listed); with a strength that is only a space and an empty purpose
PCM == PyDict([name |-> <<"P", "C", "M">>, strength |-> <<"1", "g">>,
               purpose |-> <<"f", "l", "u">>])
Unnamed == PyDict([strength |-> <<"5", "m", "l">>])
Balm == PyDict([name |-> <<"B", "a", "l", "m">>, strength |-> <<" ">>, purpose |-> <<>>])

A1 == [doc_id |-> "a1", patientId |-> "p1", staffId |-> "s1",
       appointmentDate |-> "2024-01-05", symptomsText |-> "throat pain, fever, cough",
       prescriptions |-> PyList(<<PCM>>)]
A2 == [doc_id |-> "a2", patientId |-> "p1",
       appointmentDate |-> "2024-02-11", symptomsText |-> "knee pain"]
A1again == [doc_id |-> "a1", patientId |-> "p1", staffId |-> "s2",
            appointmentDate |-> "2024-03-20", symptomsText |-> "sore throat"]
A0 == [patientId |-> "p1", staffId |-> "s1",
       appointmentDate |-> "2023-12-01", symptomsText |-> "headache"]
B1 == [doc_id |-> "b1", patientId |-> "p2", staffId |-> "s5",
       appointmentDate |-> "2024-01-09", symptomsText |-> "rash",
       prescriptions |-> PyList(<<Balm, Unnamed, PCM>>)]
\* records whose prescriptions cannot be listed: the field holds None; an entry
\* is a string
ANone == [doc_id |-> "b1", patientId |-> "p1", staffId |-> "s1",
          appointmentDate |-> "2024-04-02", symptomsText |-> "migraine",
          prescriptions |-> NoneObj]
BText == [doc_id |-> "a2", patientId |-> "p2",
          appointmentDate |-> "2024-04-15", symptomsText |-> "eczema",
          prescriptions |-> PyList(<<PCM, PyStr("cetirizine at night")>>)]

AppointmentStores == {<<>>, <<A1, B1, BText>>, <<A0, A2, A1, A1again, ANone>>}

ENT == <<"E", "N", "T">>
EYE == <<"E", "Y", "E">>

\* documents of 'staffs': Firestore document id and fields
S1 == [id |-> "s1", data |-> [staffId |-> "s1", name |-> "Rao", role |-> "Doctor", specialization |-> ENT]]
S2 == [id |-> "s2", data |-> [staffId |-> "s2", name |-> "Iyer", role |-> "Doctor", specialization |-> <<"e", "n", "t">>]]
S3 == [id |-> "s3", data |-> [staffId |-> "s3", name |-> "Khan", role |-> "Doctor", specialization |-> EYE]]
SNoId == [id |-> "s4", data |-> [name |-> "Bose", role |-> "Doctor", specialization |-> <<"E", "n", "t">>]]
SNoName == [id |-> "s1", data |-> [staffId |-> "s1", role |-> "Doctor", specialization |-> ENT]]
SNoSpec == [id |-> "s1", data |-> [staffId |-> "s1", name |-> "Rao", role |-> "Doctor"]]
SNurse == [id |-> "s5", data |-> [staffId |-> "s5", name |-> "Nair", role |-> "Nurse", specialization |-> ENT]]
SNoRole == [id |-> "s5", data |-> [staffId |-> "s5", name |-> "Das", specialization |-> ENT]]

StaffDirectories ==
    {<<>>, <<S3, S2, S1>>, <<SNoId>>, <<SNurse, SNoId, S3>>, <<SNoRole, SNoName>>, <<SNoSpec>>}

\* the NLU's replies to the red-flag prompt; the last of the second line is
\* "True" after U+000B U+00A0 and before U+0085 U+001C
RedFlagReplies ==
    {<<"t", "r", "u", "e">>, <<" ", "T", "r", "u", "e", "\n">>, <<"T", "R", "U", "E">>,
     <<"t", "r", "u", "e", "\r", "\n">>, <<"", " ", "T", "r", "u", "e", "", "">>,
     <<"f", "a", "l", "s", "e">>, <<"y", "e", "s">>, <<"t", "r", "u", "e", ".">>, <<>>}

\* the NLU's replies to the specialty prompt; the third is ENT between U+00A0
\* and U+000B
SpecialtyReplies ==
    {ENT, <<" ", "E", "N", "T", "\n">>, <<" ", "E", "N", "T", "">>, EYE, <<" ">>, <<>>}

Fabricated(doc_id) ==
    [doc_id |-> doc_id, staffId |-> "s9", appointmentDate |-> "1999-01-01",
     symptomsText |-> "fabricated",
     prescriptions |-> PyList(<<PyDict([name |-> <<"X">>])>>)]

MatchValues ==
    {JNull, JEmptyObject, JArray(0), JArray(1), JString(0), JString(3), JNumber(0), JNumber(7),
     JObject([symptomsText |-> "fabricated"])}
    \cup {JObject(Fabricated(d)) : d \in {"", "a1", "a2", "b1", "zz"}}

MatchReplies ==
    {MatchReply(f, TRUE, v) : f \in BOOLEAN, v \in MatchValues}
    \cup {MatchReply(f, FALSE, JNull) : f \in BOOLEAN}

----------------------------------------------------------------------------
(* get_chatbot_response, one request at a time per worker *)

Terminal == {"done", "failed"}
LlmSteps == {"red_flag", "match", "specialty", "compose", "compose_db"}

IdleRequest ==
    [pc |-> "idle",
     patient_id |-> None, user_input |-> None,
     patient_appointments |-> <<>>,
     matched_appointment |-> NoneObj,
     red_flag |-> FALSE,     \* what check_for_red_flags returned
     history_doctor_name |-> None,
     specialty |-> <<>>,
     routed_doctor_id |-> None, routed_doctor_name |-> None,
     final_response |-> NoneObj, ai_suggestion_for_db |-> NoneObj,
     result |-> NoneObj,     \* the returned string
     error |-> None,         \* the exception that left get_chatbot_response
     llm |-> NoLlm,
     calls |-> <<>>,         \* the calls into llm_client and firebase_client, in order
     nlu |-> {}]             \* the llm_client functions whose api_call reached the NLU

\* the llm_client call get_chatbot_response makes at a position
LlmCall(q) ==
    CASE q.pc = "red_flag" ->
            [fn |-> "check_for_red_flags", user_input |-> q.user_input]
      [] q.pc = "match" ->
            [fn |-> "find_best_match", appointments |-> q.patient_appointments]
      [] q.pc = "specialty" ->
            [fn |-> "get_specialty_for_symptoms", user_input |-> q.user_input]
      [] q.pc = "compose" ->
            [fn |-> "generate_combined_response",
             matched_appointment |-> q.matched_appointment,
             history_doctor_name |-> q.history_doctor_name,
             routed_doctor_name |-> q.routed_doctor_name]
      [] q.pc = "compose_db" ->
            [fn |-> "generate_combined_response",
             matched_appointment |-> q.matched_appointment,
             history_doctor_name |-> q.history_doctor_name,
             routed_doctor_name |-> None]

\* q after one more call of api_call_fnc that ended with outcome, inside the
\* llm_client call of q's position (entered now unless its retry loop is running)
Attempted(q, outcome) ==
    [q EXCEPT !.calls = IF q.llm.status = "running" THEN @ ELSE Append(@, LlmCall(q)),
              !.nlu = @ \cup {LlmCall(q).fn},
              !.llm = RetryIteration(CurrentLlm(q), outcome)]

\* get_chatbot_response is left by an exception, which carries the frames it
\* crossed, or by a return, after which no wrapper call exists
Raise(q, e) == [q EXCEPT !.pc = "failed", !.error = e]
Return(q, s) == [q EXCEPT !.pc = "done", !.result = s, !.llm = NoLlm]

TypeOK ==
    /\ model_type \in {"", "gemini", "openai"}
    /\ db \in BOOLEAN
    /\ Len(pendingApprovals) <= NumRequests
    /\ \A r \in Requests :
        req[r].pc \in {"idle", "red_flag", "fetch", "match", "doctor_name", "specialty",
                       "find_doctor", "compose", "compose_db", "create_approval"}
                      \cup Terminal

\* initialize_clients sets db before model: model set implies db set. The
\* client type only changes how the match reply is parsed, so the staff
\* directory is varied under one client type
Init ==
    /\ model_type \in {"", "gemini", "openai"}
    /\ db \in BOOLEAN
    /\ model_type # "" => db
    /\ appointments \in AppointmentStores
    /\ staffs \in StaffDirectories
    /\ model_type = "openai" => staffs = <<S3, S2, S1>>
    /\ pendingApprovals = <<>>
    /\ req = [r \in Requests |-> IdleRequest]

\* main.py 37-50: entry, after the fixed time.sleep(1); requests are served one
\* after the other
Start(r) ==
    /\ req[r].pc = "idle"
    /\ \A o \in 1..(r - 1) : req[o].pc \in Terminal
    /\ \E report \in SymptomReports :
        LET q == [req[r] EXCEPT !.patient_id = report.patient_id,
                                !.user_input = report.message]
        IN  req' = [req EXCEPT ![r] =
                       IF model_type = ""
                       THEN Return(q, Literal(NOT_INITIALIZED))
                       ELSE [q EXCEPT !.pc = "red_flag"]]
    /\ UNCHANGED <<model_type, db, appointments, staffs, pendingApprovals>>

\* llm_client.py 24-26: time.sleep(delay) of a retry loop returns
LlmWakes(r) ==
    /\ req[r].pc \in LlmSteps
    /\ Sleeping(req[r])
    /\ req' = [req EXCEPT ![r] = [@ EXCEPT !.llm = RetrySleepReturns(@)]]
    /\ UNCHANGED <<model_type, db, appointments, staffs, pendingApprovals>>

\* any llm_client call: api_call raises; _call_llm_with_retry enters its sleep, or re-raises
LlmRaises(r) ==
    /\ req[r].pc \in LlmSteps
    /\ ~Sleeping(req[r])
    /\ req[r].pc = "match" => req[r].patient_appointments # <<>>
    /\ req[r].pc \in {"compose", "compose_db"} => ~PrescriptionStr(req[r].matched_appointment).raised
    /\ \E e \in ApiErrors :
        LET q == Attempted(req[r], e)
        IN  req' = [req EXCEPT ![r] =
                       IF q.llm.status = "raised" THEN Raise(q, q.llm.error) ELSE q]
    /\ UNCHANGED <<model_type, db, appointments, staffs, pendingApprovals>>

\* RedFlagReturns without the early return of the emergency warning
RedFlagReturnsFallsThrough(r) ==
    /\ req[r].pc = "red_flag"
    /\ ~Sleeping(req[r])
    /\ \E reply \in RedFlagReplies :
        LET q == Attempted(req[r], "ok")
        IN  req' = [req EXCEPT ![r] =
                       [q EXCEPT !.red_flag = RedFlagApiCall(reply), !.pc = "fetch"]]
    /\ UNCHANGED <<model_type, db, appointments, staffs, pendingApprovals>>

\* main.py 52-56: check_for_red_flags returns
RedFlagReturns(r) ==
    /\ req[r].pc = "red_flag"
    /\ ~Sleeping(req[r])
    /\ \E reply \in RedFlagReplies :
        LET q == Attempted(req[r], "ok")
        IN  req' = [req EXCEPT ![r] =
                       IF RedFlagApiCall(reply)
                       THEN Return([q EXCEPT !.red_flag = TRUE], Literal(EMERGENCY_WARNING))
                       ELSE [q EXCEPT !.pc = "fetch"]]
    /\ UNCHANGED <<model_type, db, appointments, staffs, pendingApprovals>>

\* main.py 59: get_patient_appointments_by_id returns, or the store raises
FetchHistory(r) ==
    /\ req[r].pc = "fetch"
    /\ \E ok \in BOOLEAN :
        LET q == [req[r] EXCEPT !.calls = Append(@, [fn |-> "get_patient_appointments_by_id",
                                                     patient_id |-> req[r].patient_id,
                                                     store_raised |-> db /\ ~ok])]
        IN  req' = [req EXCEPT ![r] =
                       IF db /\ ~ok
                       THEN Raise(q, "StoreUnavailable")
                       ELSE [q EXCEPT !.pc = "match",
                                      !.patient_appointments =
                                          get_patient_appointments_by_id(q.patient_id)]]
    /\ UNCHANGED <<model_type, db, appointments, staffs, pendingApprovals>>

\* main.py 62, llm_client.py 133-134: find_best_match on an empty history
MatchEmpty(r) ==
    /\ req[r].pc = "match"
    /\ req[r].patient_appointments = <<>>
    /\ req' = [req EXCEPT ![r] =
                  [@ EXCEPT !.calls = Append(@, LlmCall(req[r])),
                            !.matched_appointment = NoneObj,
                            !.pc = "compose"]]
    /\ UNCHANGED <<model_type, db, appointments, staffs, pendingApprovals>>

\* MatchReturns without the `if not appointments` short-circuit before it
MatchReturnsOnEmptyHistory(r) ==
    /\ req[r].pc = "match"
    /\ ~Sleeping(req[r])
    /\ \E reply \in MatchReplies :
        LET q == Attempted(req[r], "ok")
            found == BestMatchLookup(MatchApiCall(model_type, reply), q.patient_appointments)
        IN  req' = [req EXCEPT ![r] =
                       IF found.raised THEN Raise(q, found.error)
                       ELSE [q EXCEPT !.matched_appointment = found.value,
                                      !.pc = IF found.value # NoneObj
                                             THEN "doctor_name" ELSE "compose"]]
    /\ UNCHANGED <<model_type, db, appointments, staffs, pendingApprovals>>

\* MatchReturns that goes on to routing whether or not a record matched
MatchReturnsAlwaysRoutes(r) ==
    /\ req[r].pc = "match"
    /\ ~Sleeping(req[r])
    /\ req[r].patient_appointments # <<>>
    /\ \E reply \in MatchReplies :
        LET q == Attempted(req[r], "ok")
            found == BestMatchLookup(MatchApiCall(model_type, reply), q.patient_appointments)
        IN  req' = [req EXCEPT ![r] =
                       IF found.raised THEN Raise(q, found.error)
                       ELSE [q EXCEPT !.matched_appointment = found.value,
                                      !.pc = "doctor_name"]]
    /\ UNCHANGED <<model_type, db, appointments, staffs, pendingApprovals>>

\* main.py 62-65, llm_client.py 161-191: the NLU replies to the match step
MatchReturns(r) ==
    /\ req[r].pc = "match"
    /\ ~Sleeping(req[r])
    /\ req[r].patient_appointments # <<>>
    /\ \E reply \in MatchReplies :
        LET q == Attempted(req[r], "ok")
            found == BestMatchLookup(MatchApiCall(model_type, reply), q.patient_appointments)
        IN  req' = [req EXCEPT ![r] =
                       IF found.raised THEN Raise(q, found.error)
                       ELSE [q EXCEPT !.matched_appointment = found.value,
                                      !.pc = IF found.value # NoneObj
                                             THEN "doctor_name" ELSE "compose"]]
    /\ UNCHANGED <<model_type, db, appointments, staffs, pendingApprovals>>

\* main.py 67-70: the historical doctor's name, when the record has a staffId
DoctorName(r) ==
    /\ req[r].pc = "doctor_name"
    /\ LET staff_id == Get(req[r].matched_appointment, "staffId")
       IN  IF Truthy(staff_id)
           THEN \E ok \in BOOLEAN :
                    req' = [req EXCEPT ![r] =
                               [@ EXCEPT !.calls = Append(@, [fn |-> "get_doctor_name",
                                                              staff_id |-> staff_id,
                                                              store_raised |-> db /\ ~ok]),
                                         !.history_doctor_name = get_doctor_name(staff_id, ok),
                                         !.pc = "specialty"]]
           ELSE req' = [req EXCEPT ![r] = [@ EXCEPT !.pc = "specialty"]]
    /\ UNCHANGED <<model_type, db, appointments, staffs, pendingApprovals>>

\* main.py 72: get_specialty_for_symptoms returns
SpecialtyReturns(r) ==
    /\ req[r].pc = "specialty"
    /\ ~Sleeping(req[r])
    /\ \E reply \in SpecialtyReplies :
        LET q == Attempted(req[r], "ok")
        IN  req' = [req EXCEPT ![r] =
                       [q EXCEPT !.specialty = SpecialtyApiCall(reply),
                                 !.pc = "find_doctor"]]
    /\ UNCHANGED <<model_type, db, appointments, staffs, pendingApprovals>>

\* main.py 74-76: find_doctor_by_specialty, when the label is not empty
FindDoctor(r) ==
    /\ req[r].pc = "find_doctor"
    /\ IF req[r].specialty # <<>>
       THEN \E ok \in BOOLEAN :
                LET doctor == find_doctor_by_specialty(req[r].specialty, ok)
                IN  req' = [req EXCEPT ![r] =
                               [@ EXCEPT !.calls = Append(@, [fn |-> "find_doctor_by_specialty",
                                                              specialty |-> req[r].specialty,
                                                              store_raised |-> db /\ ~ok]),
                                         !.routed_doctor_id = doctor[1],
                                         !.routed_doctor_name = doctor[2],
                                         !.pc = "compose"]]
       ELSE req' = [req EXCEPT ![r] = [@ EXCEPT !.pc = "compose"]]
    /\ UNCHANGED <<model_type, db, appointments, staffs, pendingApprovals>>

\* main.py 78 and 88, llm_client.py 206-211: generate_combined_response raises
\* while it lists the prescriptions, before the NLU is called
ComposeRaises(r) ==
    /\ req[r].pc \in {"compose", "compose_db"}
    /\ PrescriptionStr(req[r].matched_appointment).raised
    /\ req' = [req EXCEPT ![r] =
                  Raise([@ EXCEPT !.calls = Append(@, LlmCall(req[r]))],
                        PrescriptionStr(req[r].matched_appointment).error)]
    /\ UNCHANGED <<model_type, db, appointments, staffs, pendingApprovals>>

\* ComposeReturns that stores the approval record as soon as the user-facing
\* response is composed, before the routing-free variant is composed
ComposeReturnsWritesFirst(r) ==
    /\ req[r].pc = "compose"
    /\ ~Sleeping(req[r])
    /\ ~PrescriptionStr(req[r].matched_appointment).raised
    /\ LET q == Attempted(req[r], "ok")
           final_response == Generated(CombinedPrompt(q.user_input, q.matched_appointment,
                                                      q.history_doctor_name,
                                                      q.routed_doctor_name))
       IN  IF q.matched_appointment # NoneObj /\ Truthy(q.routed_doctor_id)
           THEN /\ pendingApprovals' =
                       create_pending_approval(q.patient_id, q.routed_doctor_id,
                                               q.user_input, final_response, TRUE)
                /\ req' = [req EXCEPT ![r] =
                              [q EXCEPT !.final_response = final_response,
                                        !.calls = Append(@, [fn |-> "create_pending_approval",
                                                             patient_id |-> q.patient_id,
                                                             doctor_id |-> q.routed_doctor_id,
                                                             symptoms |-> q.user_input,
                                                             ai_output |-> final_response,
                                                             store_raised |-> FALSE]),
                                        !.pc = "compose_db"]]
           ELSE /\ pendingApprovals' = pendingApprovals
                /\ req' = [req EXCEPT ![r] =
                              Return([q EXCEPT !.final_response = final_response],
                                     _format_response_to_string(final_response))]
    /\ UNCHANGED <<model_type, db, appointments, staffs>>

\* main.py 78-87 and 96, 100-108: final_response is composed
ComposeReturns(r) ==
    /\ req[r].pc = "compose"
    /\ ~Sleeping(req[r])
    /\ ~PrescriptionStr(req[r].matched_appointment).raised
    /\ LET q == Attempted(req[r], "ok")
           final_response == Generated(CombinedPrompt(q.user_input, q.matched_appointment,
                                                      q.history_doctor_name,
                                                      q.routed_doctor_name))
       IN  req' = [req EXCEPT ![r] =
                      IF q.matched_appointment # NoneObj /\ Truthy(q.routed_doctor_id)
                      THEN [q EXCEPT !.final_response = final_response, !.pc = "compose_db"]
                      ELSE Return([q EXCEPT !.final_response = final_response],
                                  _format_response_to_string(final_response))]
    /\ UNCHANGED <<model_type, db, appointments, staffs, pendingApprovals>>

\* main.py 88: ai_suggestion_for_db is composed
ComposeDbReturns(r) ==
    /\ req[r].pc = "compose_db"
    /\ ~Sleeping(req[r])
    /\ ~PrescriptionStr(req[r].matched_appointment).raised
    /\ LET q == Attempted(req[r], "ok")
       IN  req' = [req EXCEPT ![r] =
                      [q EXCEPT !.ai_suggestion_for_db =
                                    Generated(CombinedPrompt(q.user_input, q.matched_appointment,
                                                             q.history_doctor_name, None)),
                                !.pc = "create_approval"]]
    /\ UNCHANGED <<model_type, db, appointments, staffs, pendingApprovals>>

\* CreateApproval that takes patient and symptoms from a module-level variable
\* which every entering request overwrites (here: the last request that entered)
CreateApprovalOfLatestRequest(r) ==
    /\ req[r].pc = "create_approval"
    /\ \E ok \in BOOLEAN :
        LET q == req[r]
            latest == req[CHOOSE o \in DOMAIN req :
                             /\ req[o].pc # "idle"
                             /\ \A p \in DOMAIN req : req[p].pc # "idle" => p <= o]
            ai_output == _format_response_to_string(q.ai_suggestion_for_db)
        IN  /\ pendingApprovals' =
                   create_pending_approval(latest.patient_id, q.routed_doctor_id,
                                           latest.user_input, ai_output, ok)
            /\ req' = [req EXCEPT ![r] =
                          Return([q EXCEPT !.calls =
                                      Append(@, [fn |-> "create_pending_approval",
                                                 patient_id |-> latest.patient_id,
                                                 doctor_id |-> q.routed_doctor_id,
                                                 symptoms |-> latest.user_input,
                                                 ai_output |-> ai_output,
                                                 store_raised |-> db /\ ~ok])],
                                 _format_response_to_string(q.final_response))]
    /\ UNCHANGED <<model_type, db, appointments, staffs>>

\* CreateApproval that stores the user-facing response as aiOutput
CreateApprovalStoresFinalResponse(r) ==
    /\ req[r].pc = "create_approval"
    /\ \E ok \in BOOLEAN :
        LET q == req[r]
            ai_output == _format_response_to_string(q.final_response)
        IN  /\ pendingApprovals' =
                   create_pending_approval(q.patient_id, q.routed_doctor_id,
                                           q.user_input, ai_output, ok)
            /\ req' = [req EXCEPT ![r] =
                          Return([q EXCEPT !.calls =
                                      Append(@, [fn |-> "create_pending_approval",
                                                 patient_id |-> q.patient_id,
                                                 doctor_id |-> q.routed_doctor_id,
                                                 symptoms |-> q.user_input,
                                                 ai_output |-> ai_output,
                                                 store_raised |-> db /\ ~ok])],
                                 _format_response_to_string(q.final_response))]
    /\ UNCHANGED <<model_type, db, appointments, staffs>>

\* main.py 89-96: create_pending_approval, then the return of final_response
CreateApproval(r) ==
    /\ req[r].pc = "create_approval"
    /\ \E ok \in BOOLEAN :
        LET q == req[r]
            ai_output == _format_response_to_string(q.ai_suggestion_for_db)
        IN  /\ pendingApprovals' =
                   create_pending_approval(q.patient_id, q.routed_doctor_id,
                                           q.user_input, ai_output, ok)
            /\ req' = [req EXCEPT ![r] =
                          Return([q EXCEPT !.calls =
                                      Append(@, [fn |-> "create_pending_approval",
                                                 patient_id |-> q.patient_id,
                                                 doctor_id |-> q.routed_doctor_id,
                                                 symptoms |-> q.user_input,
                                                 ai_output |-> ai_output,
                                                 store_raised |-> db /\ ~ok])],
                                 _format_response_to_string(q.final_response))]
    /\ UNCHANGED <<model_type, db, appointments, staffs>>

Next ==
    \E r \in Requests :
        \/ Start(r)
        \/ LlmRaises(r)
        \/ LlmWakes(r)
        \/ RedFlagReturns(r)
        \/ FetchHistory(r)
        \/ MatchEmpty(r)
        \/ MatchReturns(r)
        \/ DoctorName(r)
        \/ SpecialtyReturns(r)
        \/ FindDoctor(r)
        \/ ComposeRaises(r)
        \/ ComposeReturns(r)
        \/ ComposeDbReturns(r)
        \/ CreateApproval(r)

Spec == Init /\ [][Next]_vars

----------------------------------------------------------------------------
(* create_pending_approval called on its own, any number of times *)

\* the number of calls made
MaxWrites == 3

\* the arguments a call may carry
WriteArguments ==
    [patient_id : {"p1", "p2"}, doctor_id : {"s1", "s2"},
     symptoms : {"itchy rash"}, ai_output : {Literal("see a dermatologist")}]

StoreInit ==
    /\ Init
    /\ appointments = <<>>
    /\ staffs = <<>>

\* firebase_client.py 95-111: one call of create_pending_approval; the caller
\* keeps a log of its calls in req[1]
StoreWrite ==
    /\ Len(req[1].calls) < MaxWrites
    /\ \E a \in WriteArguments, ok \in BOOLEAN :
        /\ pendingApprovals' =
               create_pending_approval(a.patient_id, a.doctor_id, a.symptoms, a.ai_output, ok)
        /\ req' = [req EXCEPT ![1] =
                      [@ EXCEPT !.calls = Append(@, [fn |-> "create_pending_approval",
                                                     patient_id |-> a.patient_id,
                                                     doctor_id |-> a.doctor_id,
                                                     symptoms |-> a.symptoms,
                                                     ai_output |-> a.ai_output,
                                                     store_raised |-> db /\ ~ok])]]
    /\ UNCHANGED <<model_type, db, appointments, staffs>>

StoreNext == StoreWrite

StoreSpec == StoreInit /\ [][StoreNext]_vars

----------------------------------------------------------------------------
(* Two requests served at the same time (app.py: one thread per request) *)

ConcRequests == {1, 2}

\* the two requests are for different patients
ConcReport(r) ==
    IF r = 1 THEN [patient_id |-> "p1", message |-> "sore throat and fever"]
    ELSE [patient_id |-> "p2", message |-> "itchy rash"]

ConcInit ==
    /\ model_type = "gemini"
    /\ db = TRUE
    /\ appointments \in AppointmentStores
    /\ staffs = <<S3, S2, S1>>
    /\ pendingApprovals = <<>>
    /\ req = [r \in ConcRequests |-> IdleRequest]

\* main.py 37-50: entry of a request, whatever the other request is doing
ConcStart(r) ==
    /\ req[r].pc = "idle"
    /\ LET q == [req[r] EXCEPT !.patient_id = ConcReport(r).patient_id,
                               !.user_input = ConcReport(r).message]
       IN  req' = [req EXCEPT ![r] =
                      IF model_type = ""
                      THEN Return(q, Literal(NOT_INITIALIZED))
                      ELSE [q EXCEPT !.pc = "red_flag"]]
    /\ UNCHANGED <<model_type, db, appointments, staffs, pendingApprovals>>

\* the steps of the two requests interleave freely
ConcNext ==
    \E r \in ConcRequests :
        \/ ConcStart(r)
        \/ LlmRaises(r)
        \/ LlmWakes(r)
        \/ RedFlagReturns(r)
        \/ FetchHistory(r)
        \/ MatchEmpty(r)
        \/ MatchReturns(r)
        \/ DoctorName(r)
        \/ SpecialtyReturns(r)
        \/ FindDoctor(r)
        \/ ComposeRaises(r)
        \/ ComposeReturns(r)
        \/ ComposeDbReturns(r)
        \/ CreateApproval(r)

ConcSpec == ConcInit /\ [][ConcNext]_vars

----------------------------------------------------------------------------
(* Properties *)

\* positions in a request's call log of the calls of one function
CallsOf(q, fn) == {i \in DOMAIN q.calls : q.calls[i].fn = fn}

\* the records of the store that a create_pending_approval call of the request accounts for
ApprovalsOf(q) ==
    {i \in DOMAIN pendingApprovals :
        \E w \in CallsOf(q, "create_pending_approval") :
            /\ pendingApprovals[i].patientId = q.calls[w].patient_id
            /\ pendingApprovals[i].staffId = q.calls[w].doctor_id
            /\ pendingApprovals[i].symptoms = q.calls[w].symptoms
            /\ pendingApprovals[i].aiOutput = q.calls[w].ai_output}

\* every record of the store is accounted for by a create_pending_approval call,
\* and there are no more records than requests that made the call
RecordsOnlyFromWrites ==
    /\ \A i \in DOMAIN pendingApprovals : \E r \in Requests : i \in ApprovalsOf(req[r])
    /\ Len(pendingApprovals)
           <= Cardinality({r \in Requests : CallsOf(req[r], "create_pending_approval") # {}})

\* C1: once the red-flag check returned true, the request has returned exactly
\* the fixed emergency warning, and it made no call but the red-flag check:
\* no history fetch, no match, no routing lookup, no composition, no approval write.
C1_EmergencyBypassesPipeline ==
    \A r \in Requests :
        req[r].red_flag =>
            /\ req[r].pc = "done"
            /\ req[r].result = Literal(EMERGENCY_WARNING)
            /\ req[r].error = None
            /\ req[r].calls = <<[fn |-> "check_for_red_flags", user_input |-> req[r].user_input]>>
            /\ req[r].nlu = {"check_for_red_flags"}
            /\ ApprovalsOf(req[r]) = {}
            /\ RecordsOnlyFromWrites

C1_Witness ==
    \E r \in Requests :
        /\ req[r].red_flag
        /\ req[r].pc = "done"
        /\ req[r].result = Literal(EMERGENCY_WARNING)
        /\ Len(req[r].calls) = 1
        /\ appointments # <<>>

\* routing returned something other than (None, None)
PractitionerResolved(q) == q.routed_doctor_id # None \/ q.routed_doctor_name # None

\* C2 (as claimed): in every request that returned, create_pending_approval was
\* called if and only if a record was matched, the specialty label is not empty
\* and routing resolved a practitioner.
C2_WriteIffMatchedAndRouted ==
    \A r \in Requests :
        req[r].pc = "done" /\ req[r].result # Literal(NOT_INITIALIZED) =>
            (CallsOf(req[r], "create_pending_approval") # {}
                <=> /\ req[r].matched_appointment # NoneObj
                    /\ req[r].specialty # <<>>
                    /\ PractitionerResolved(req[r]))

\* C3: a call of _call_llm_with_retry makes at most 3 attempts; two rate-limit
\* errors followed by a success return after the sleeps 5 then 10; three
\* rate-limit errors propagate the rate-limit error after the sleeps 5 then 10,
\* with no sleep after the third failure and no fourth attempt.
C3_RetryAtMostThreeBackoff ==
    \A r \in Requests :
        LET l == req[r].llm
        IN  /\ Len(l.attempts) <= 3
            /\ l.attempts = <<RateLimit, RateLimit, "ok">> =>
                   /\ l.status = "returned"
                   /\ l.error = None
                   /\ l.sleeps = <<5, 10>>
            /\ l.attempts = <<RateLimit, RateLimit, RateLimit>> =>
                   /\ l.status = "raised"
                   /\ l.error = RateLimit
                   /\ l.sleeps = <<5, 10>>
                   /\ req[r].pc = "failed"
                   /\ req[r].error = RateLimit

C3_Witness ==
    \E r \in Requests :
        /\ req[r].llm.attempts = <<RateLimit, RateLimit, "ok">>
        /\ req[r].llm.status = "returned"

\* C4: an error other than the rate-limit error, on whichever attempt it is
\* raised, ends the call: it is the last attempt, it is the error propagated,
\* and the only sleeps are those that followed the earlier rate-limit errors.
C4_OtherErrorPropagatesAtOnce ==
    \A r \in Requests :
        LET l == req[r].llm
        IN  \A k \in DOMAIN l.attempts :
                l.attempts[k] = "OtherError" =>
                    /\ k = Len(l.attempts)
                    /\ l.status = "raised"
                    /\ l.error = "OtherError"
                    /\ Len(l.sleeps) = k - 1
                    /\ req[r].pc = "failed"
                    /\ req[r].error = "OtherError"

C4_Witness ==
    \E r \in Requests :
        /\ req[r].llm.attempts = <<RateLimit, "OtherError">>
        /\ req[r].pc = "failed"


\* the doc ids of a record set
DocIds(apps) == {Get(apps[i], "doc_id") : i \in DOMAIN apps}

\* find_best_match on an NLU reply, for a non-empty record set
FindBestMatchOn(reply, apps) == BestMatchLookup(MatchApiCall(model_type, reply), apps)

\* the reply is a JSON object with a doc id that no supplied record has
CarriesUnknownDocId(reply, apps) ==
    /\ reply.json
    /\ model_type = "openai" => ~reply.fenced
    /\ reply.value.js = "object"
    /\ reply.value.size > 0
    /\ "doc_id" \in DOMAIN reply.value.obj
    /\ reply.value.obj.doc_id \notin DocIds(apps)

\* C5: whatever the NLU replies to the match step, a record that find_best_match
\* returns has the doc id of one of the supplied records; a reply whose doc id
\* no supplied record has gives not-found, without an error. The record a
\* request holds as matched is one of the records it fetched.
C5_MatchIsOneOfTheRecords ==
    \A r \in Requests :
        LET apps == req[r].patient_appointments
        IN  /\ req[r].matched_appointment # NoneObj =>
                   /\ Get(req[r].matched_appointment, "doc_id") \in DocIds(apps) \ {None}
                   /\ \E i \in DOMAIN apps : apps[i] = req[r].matched_appointment
            /\ req[r].pc = "match" /\ apps # <<>> =>
                   \A reply \in MatchReplies :
                       LET found == FindBestMatchOn(reply, apps)
                       IN  /\ ~found.raised /\ found.value # NoneObj =>
                                  Get(found.value, "doc_id") \in DocIds(apps) \ {None}
                           /\ CarriesUnknownDocId(reply, apps) =>
                                  ~found.raised /\ found.value = NoneObj

C5_Witness ==
    \E r \in Requests :
        /\ req[r].pc = "doctor_name"
        /\ req[r].matched_appointment = A1
        /\ Len(req[r].patient_appointments) = 5
        /\ \E reply \in MatchReplies :
               /\ CarriesUnknownDocId(reply, req[r].patient_appointments)
               /\ reply.value.obj.doc_id = "zz"

\* the history fetch of the request returned
Fetched(q) ==
    /\ CallsOf(q, "get_patient_appointments_by_id") # {}
    /\ ~(q.pc = "failed" /\ q.calls[Len(q.calls)].fn = "get_patient_appointments_by_id")

\* C6: a request whose fetched history is empty never sends the match step (nor
\* the specialty step) to the NLU and its match is not-found; when it has
\* returned, the NLU saw the red-flag check and one response composition only.
C6_EmptyHistorySkipsNlu ==
    \A r \in Requests :
        Fetched(req[r]) /\ req[r].patient_appointments = <<>> =>
            /\ req[r].matched_appointment = NoneObj
            /\ req[r].nlu \subseteq {"check_for_red_flags", "generate_combined_response"}
            /\ req[r].pc # "failed" \/ req[r].error \in ApiErrors
            /\ req[r].pc = "done" =>
                   /\ req[r].nlu = {"check_for_red_flags", "generate_combined_response"}
                   /\ Cardinality(CallsOf(req[r], "generate_combined_response")) = 1
                   /\ Cardinality(CallsOf(req[r], "find_best_match")) = 1

C6_Witness ==
    \E r \in Requests :
        /\ Fetched(req[r])
        /\ req[r].patient_appointments = <<>>
        /\ appointments # <<>>
        /\ req[r].pc = "done"

\* the synthesis request of the request that found no similar record
UnmatchedPrompt(q) ==
    [user_input |-> q.user_input,
     ai_suggestion_text |-> [text |-> NO_SIMILAR],
     routing_message |-> [text |-> ""],
     final_call_to_action |-> CONSULT_A_DOCTOR]

\* the match step ended with not-found (and did not raise)
MatchNotFound(q) ==
    /\ CallsOf(q, "find_best_match") # {}
    /\ q.matched_appointment = NoneObj
    /\ \/ q.pc = "compose"
       \/ q.pc \in Terminal /\ q.calls[Len(q.calls)].fn = "generate_combined_response"

\* the request made no routing call and no approval write
NoRoutingNoApproval(q) ==
    /\ CallsOf(q, "get_doctor_name") = {}
    /\ CallsOf(q, "get_specialty_for_symptoms") = {}
    /\ CallsOf(q, "find_doctor_by_specialty") = {}
    /\ CallsOf(q, "create_pending_approval") = {}
    /\ "get_specialty_for_symptoms" \notin q.nlu
    /\ ApprovalsOf(q) = {}
    /\ RecordsOnlyFromWrites

\* C7: an unparsable reply to the match step gives what the empty-object reply
\* gives, not-found without an error, fenced or not and for either provider; and
\* a request whose match is not-found makes no routing call and no approval
\* write, and returns the text composed from the no-similar-record summary, no
\* routing notice and the soft disclaimer.
C7_UnparsableReplyIsNoMatch ==
    \A r \in Requests :
        /\ req[r].pc = "match" /\ req[r].patient_appointments # <<>> =>
               \A f \in BOOLEAN :
                   LET found == FindBestMatchOn(MatchReply(f, FALSE, JNull),
                                                req[r].patient_appointments)
                   IN  /\ found = FindBestMatchOn(MatchReply(FALSE, TRUE, JEmptyObject),
                                                  req[r].patient_appointments)
                       /\ ~found.raised
                       /\ found.value = NoneObj
        /\ MatchNotFound(req[r]) /\ req[r].patient_appointments # <<>> =>
               /\ NoRoutingNoApproval(req[r])
               /\ req[r].pc = "done" =>
                      /\ req[r].final_response = Generated(UnmatchedPrompt(req[r]))
                      /\ req[r].result = Generated(UnmatchedPrompt(req[r]))

C7_Witness ==
    \E r \in Requests :
        /\ MatchNotFound(req[r])
        /\ req[r].patient_appointments # <<>>
        /\ "find_best_match" \in req[r].nlu
        /\ req[r].pc = "done"

\* the call is a composition without a routed doctor name
IsAuditCompose(c) == c.fn = "generate_combined_response" /\ c.routed_doctor_name = None

\* C8 (as claimed): in a request that returned after an approval write, the
\* routing-free composition comes right before the write and a composition of
\* the user-facing response comes after the write.
C8_AuditWriteThenUserFacing ==
    \A r \in Requests :
        req[r].pc = "done" =>
            \A w \in CallsOf(req[r], "create_pending_approval") :
                /\ w > 1
                /\ IsAuditCompose(req[r].calls[w - 1])
                /\ \E u \in CallsOf(req[r], "generate_combined_response") : u > w

\* C8 (amended): whenever the approval write has been called, it is the last
\* call of the request; the user-facing response was composed first, with the
\* routed doctor name, the routing-free variant was composed next, and the write
\* carries that routing-free variant; the request returns the response composed first.
C8_UserFacingAuditThenWrite ==
    \A r \in Requests :
        LET q == req[r]
        IN  \A w \in CallsOf(q, "create_pending_approval") :
                /\ w = Len(q.calls)
                /\ w > 2
                /\ IsAuditCompose(q.calls[w - 1])
                /\ q.calls[w - 2].fn = "generate_combined_response"
                /\ q.calls[w - 2].routed_doctor_name = q.routed_doctor_name
                /\ CallsOf(q, "generate_combined_response") = {w - 2, w - 1}
                /\ q.calls[w].ai_output =
                       Generated(CombinedPrompt(q.user_input, q.matched_appointment,
                                                q.history_doctor_name, None))
                /\ q.calls[w].ai_output = q.ai_suggestion_for_db
                /\ q.pc = "done"
                /\ q.result =
                       Generated(CombinedPrompt(q.user_input, q.matched_appointment,
                                                q.history_doctor_name, q.routed_doctor_name))

C8_Witness ==
    \E r \in Requests :
        /\ CallsOf(req[r], "create_pending_approval") # {}
        /\ req[r].routed_doctor_name = "Iyer"
        /\ ApprovalsOf(req[r]) # {}

\* C9: once the match step has yielded not-found, the request makes no routing
\* call (historical doctor name, specialty classification, practitioner lookup),
\* creates no approval record and composes at most once; when it has ended, it
\* composed exactly once, with no matched record and no doctor name.
C9_NotFoundMeansNoRouting ==
    \A r \in Requests :
        LET q == req[r]
        IN  MatchNotFound(q) =>
                /\ NoRoutingNoApproval(q)
                /\ q.routed_doctor_id = None /\ q.routed_doctor_name = None
                /\ Cardinality(CallsOf(q, "generate_combined_response")) <= 1
                /\ q.pc \in Terminal =>
                       /\ Cardinality(CallsOf(q, "generate_combined_response")) = 1
                       /\ q.calls[Len(q.calls)] =
                              [fn |-> "generate_combined_response",
                               matched_appointment |-> NoneObj,
                               history_doctor_name |-> None,
                               routed_doctor_name |-> None]
                       /\ Len(q.calls) = 4

C9_Witness ==
    \E r \in Requests :
        /\ MatchNotFound(req[r])
        /\ req[r].pc = "done"
        /\ staffs # <<>>

\* C10 (as claimed): a request that returned with a matched record, a non-empty
\* specialty label and a practitioner resolved has created exactly one approval
\* record, with status Pending, its patient id, the routed practitioner's id,
\* its symptom text and the routing-free composition as aiOutput; and its
\* response was composed with the routing notice and the strong disclaimer.
C10_RoutedCreatesOnePendingRecord ==
    \A r \in Requests :
        LET q == req[r]
        IN  /\ q.pc = "done"
            /\ q.matched_appointment # NoneObj
            /\ q.specialty # <<>>
            /\ PractitionerResolved(q)
            => /\ Cardinality(CallsOf(q, "create_pending_approval")) = 1
               /\ \E i \in ApprovalsOf(q) :
                      /\ pendingApprovals[i].status = "Pending"
                      /\ pendingApprovals[i].patientId = q.patient_id
                      /\ pendingApprovals[i].staffId = q.routed_doctor_id
                      /\ pendingApprovals[i].symptoms = q.user_input
                      /\ pendingApprovals[i].aiOutput =
                             Generated(CombinedPrompt(q.user_input, q.matched_appointment,
                                                      q.history_doctor_name, None))
               /\ q.final_response.generated_from.routing_message # [text |-> ""]
               /\ q.final_response.generated_from.final_call_to_action = WAIT_FOR_APPROVAL

\* an error raised by a collaborator call (an NLU call or a store call) ended the request
CollaboratorRaised(q) == q.pc = "failed" /\ q.error \in ApiErrors \cup {"StoreUnavailable"}

\* the branches a request that returned ended on
Branches(q) ==
    {b \in {"emergency", "unmatched", "matched-but-unrouted", "routed"} :
        \/ b = "emergency" /\ q.red_flag /\ q.result = Literal(EMERGENCY_WARNING)
        \/ /\ b = "unmatched"
           /\ ~q.red_flag /\ q.matched_appointment = NoneObj
           /\ q.result = q.final_response /\ "generated_from" \in DOMAIN q.result
        \/ /\ b = "matched-but-unrouted"
           /\ q.matched_appointment # NoneObj /\ ~Truthy(q.routed_doctor_id)
           /\ q.result = q.final_response /\ "generated_from" \in DOMAIN q.result
        \/ /\ b = "routed"
           /\ q.matched_appointment # NoneObj /\ Truthy(q.routed_doctor_id)
           /\ q.result = q.final_response /\ "generated_from" \in DOMAIN q.result}

\* C11 (as claimed): a request of the initialised pipeline that has ended, none
\* of whose collaborator calls raised an unrecovered error, has returned on
\* exactly one of the branches emergency, unmatched, matched-but-unrouted or
\* routed, and what it returned is a single string.
C11_EndsOnOneBranchWithAString ==
    \A r \in Requests :
        LET q == req[r]
        IN  model_type # "" /\ q.pc \in Terminal /\ ~CollaboratorRaised(q) =>
                /\ q.pc = "done"
                /\ q.result.py = "str"
                /\ Cardinality(Branches(q)) = 1

\* the request met a failure it did not recover from: the clients are not
\* initialised, an NLU call (the composition included) ended by raising, or
\* the composition raised while it listed the prescriptions
UnrecoveredFailure(q) ==
    /\ q.pc \notin {"idle"}
    /\ \/ model_type = ""
       \/ q.llm.status = "raised"
       \/ /\ q.calls # <<>>
          /\ q.calls[Len(q.calls)].fn = "generate_combined_response"
          /\ PrescriptionStr(q.matched_appointment).raised

\* C12 (as claimed): a request that met an unrecovered failure (rate-limit
\* retries exhausted, another NLU error, a failed composition, clients not
\* initialised) leaves get_chatbot_response by a raised error and returns no
\* string: neither the emergency text, nor a composed message, nor any other.
C12_FailureIsNeverAReturnedString ==
    \A r \in Requests :
        LET q == req[r]
        IN  UnrecoveredFailure(q) =>
                /\ q.pc = "failed"
                /\ q.error # None
                /\ q.result = NoneObj

\* positions in a request's call log of the store calls on which the store raised
StoreFailures(q) ==
    {i \in DOMAIN q.calls : "store_raised" \in DOMAIN q.calls[i] /\ q.calls[i].store_raised}

\* C13 (as claimed): a store call on which the store raised (appointment fetch,
\* practitioner-name lookup, practitioner-by-specialty lookup, pending-approval
\* creation) is the last call of its request, is made once, and the request has
\* ended with the store's error: no composed response follows it.
C13_StoreFailureEndsTheRequest ==
    \A r \in Requests :
        LET q == req[r]
        IN  \A i \in StoreFailures(q) :
                /\ i = Len(q.calls)
                /\ q.pc = "failed"
                /\ q.error = "StoreUnavailable"
                /\ q.result = NoneObj

\* the create_pending_approval calls that succeeded: the store was there and did not raise
SuccessfulWrites ==
    {c \in UNION {{r} \X CallsOf(req[r], "create_pending_approval") : r \in Requests} :
        /\ c[2] \in DOMAIN req[c[1]].calls
        /\ db
        /\ ~req[c[1]].calls[c[2]].store_raised}

\* C14: after n successful create_pending_approval calls the store holds n
\* records, no two of them the same document, each with status Pending and the
\* server timestamp; calls with identical arguments each add their own record.
C14_EverySuccessfulWriteAddsARecord ==
    /\ Len(pendingApprovals) = Cardinality(SuccessfulWrites)
    /\ \A i, j \in DOMAIN pendingApprovals :
           i # j => pendingApprovals[i].id # pendingApprovals[j].id
    /\ \A i \in DOMAIN pendingApprovals :
           /\ pendingApprovals[i].status = "Pending"
           /\ pendingApprovals[i].timestamp = "SERVER_TIMESTAMP"
           /\ \E c \in SuccessfulWrites :
                  LET w == req[c[1]].calls[c[2]]
                  IN  /\ pendingApprovals[i].patientId = w.patient_id
                      /\ pendingApprovals[i].staffId = w.doctor_id
                      /\ pendingApprovals[i].symptoms = w.symptoms
                      /\ pendingApprovals[i].aiOutput = w.ai_output

\* two successful calls with identical arguments, and a failed one, were made
C14_Witness ==
    /\ Len(pendingApprovals) = 2
    /\ pendingApprovals[1].patientId = pendingApprovals[2].patientId
    /\ pendingApprovals[1].staffId = pendingApprovals[2].staffId
    /\ pendingApprovals[1].symptoms = pendingApprovals[2].symptoms
    /\ pendingApprovals[1].aiOutput = pendingApprovals[2].aiOutput
    /\ Len(req[1].calls) = 3

\* the parts of a synthesis request agree with the arguments it was built from
PromptPartsAgree(prompt, user_input, matched_appointment, routed_doctor_name) ==
    /\ prompt.user_input = user_input
    /\ prompt.routing_message # [text |-> ""] <=> routed_doctor_name # None
    /\ routed_doctor_name # None =>
           prompt.routing_message =
               [text |-> "This suggestion has now been forwarded to a real doctor",
                doctor |-> routed_doctor_name]
    /\ prompt.final_call_to_action = WAIT_FOR_APPROVAL <=> routed_doctor_name # None
    /\ prompt.final_call_to_action = CONSULT_A_DOCTOR <=> routed_doctor_name = None
    /\ prompt.ai_suggestion_text = [text |-> NO_SIMILAR] <=> matched_appointment = NoneObj
    /\ matched_appointment # NoneObj =>
           /\ prompt.ai_suggestion_text.text = "Based on your symptoms, I found a past appointment"
           /\ prompt.ai_suggestion_text.date = Get(matched_appointment, "appointmentDate")
           /\ prompt.ai_suggestion_text.symptoms = Get(matched_appointment, "symptomsText")

\* C15: in every synthesis request a request has built (the user-facing one,
\* with the doctor name routing returned, and the one for the approval record,
\* with no doctor name), the routing notice is there exactly when a routed
\* doctor name was given, the disclaimer is the strong one exactly when a routed
\* doctor name was given and the soft one otherwise, and the match summary is
\* the no-similar-record text exactly when no matched record was given.
C15_PromptPartsFollowArguments ==
    \A r \in Requests :
        LET q == req[r]
        IN  /\ q.final_response # NoneObj =>
                   PromptPartsAgree(q.final_response.generated_from, q.user_input,
                                    q.matched_appointment, q.routed_doctor_name)
            /\ q.ai_suggestion_for_db # NoneObj =>
                   PromptPartsAgree(q.ai_suggestion_for_db.generated_from, q.user_input,
                                    q.matched_appointment, None)

\* a request built both synthesis requests for a matched record and a routed doctor
C15_Witness ==
    \E r \in Requests :
        /\ req[r].pc = "done"
        /\ req[r].matched_appointment # NoneObj
        /\ req[r].routed_doctor_name = "Iyer"
        /\ req[r].final_response # NoneObj
        /\ req[r].ai_suggestion_for_db # NoneObj
        /\ req[r].matched_appointment = B1
        /\ req[r].ai_suggestion_for_db.generated_from.ai_suggestion_text.prescription_str =
               <<"-", " ", "B", "a", "l", "m", "\n",
                 "-", " ", "P", "C", "M", " ", "1", "g", " ", "(", "f", "o", "r", " ",
                 "f", "l", "u", ")">>

\* apps[i] is the first of the records with its doc id
IsFirstWithItsDocId(apps, i) ==
    \A j \in 1..(i - 1) : Get(apps[j], "doc_id") # Get(apps[i], "doc_id")

\* the match summary of a synthesis request quotes the record rec
SummaryQuotes(text, rec) ==
    /\ text # NoneObj
    /\ text.generated_from.ai_suggestion_text.date = Get(rec, "appointmentDate")
    /\ text.generated_from.ai_suggestion_text.symptoms = Get(rec, "symptomsText")
    /\ text.generated_from.ai_suggestion_text.prescription_str = PrescriptionStr(rec).value

\* C16: the record find_best_match returns is the first of the supplied records
\* with the doc id of the reply, field for field as supplied, and is the same
\* whether or not the reply echoes other fields next to the doc id; the
\* historical-doctor lookup, both synthesis requests and the approval record of
\* the request use the fields of that local record only.
C16_ReplyFieldsNeverUsed ==
    \A r \in Requests :
        LET q == req[r]
            apps == q.patient_appointments
        IN  /\ q.pc = "match" /\ apps # <<>> =>
                   \A d \in DocIds(apps) \ {None}, f \in BOOLEAN :
                       LET echo == FindBestMatchOn(MatchReply(f, TRUE, JObject(Fabricated(d))), apps)
                           bare == FindBestMatchOn(MatchReply(f, TRUE, JObject([doc_id |-> d])), apps)
                       IN  /\ echo = bare
                           /\ ~echo.raised
                           /\ echo.value # NoneObj =>
                                  \E i \in DOMAIN apps :
                                      /\ apps[i] = echo.value
                                      /\ Get(apps[i], "doc_id") = d
                                      /\ IsFirstWithItsDocId(apps, i)
            /\ q.matched_appointment # NoneObj =>
                   \E i \in DOMAIN apps :
                       /\ apps[i] = q.matched_appointment
                       /\ IsFirstWithItsDocId(apps, i)
                       /\ \A c \in CallsOf(q, "get_doctor_name") :
                              q.calls[c].staff_id = Get(apps[i], "staffId")
                       /\ \A c \in CallsOf(q, "generate_combined_response") :
                              q.calls[c].matched_appointment = apps[i]
                       /\ q.final_response # NoneObj => SummaryQuotes(q.final_response, apps[i])
                       /\ q.ai_suggestion_for_db # NoneObj =>
                              SummaryQuotes(q.ai_suggestion_for_db, apps[i])
                       /\ \A a \in ApprovalsOf(q) :
                              SummaryQuotes(pendingApprovals[a].aiOutput, apps[i])

\* a request that matched the first of two records with doc id a1 on a reply
\* echoing other fields has stored its approval record and returned
C16_Witness ==
    \E r \in Requests :
        /\ req[r].pc = "done"
        /\ req[r].matched_appointment = A1
        /\ Len(req[r].patient_appointments) = 5
        /\ CallsOf(req[r], "get_doctor_name") # {}
        /\ ApprovalsOf(req[r]) # {}
        /\ req[r].result.generated_from.ai_suggestion_text.prescription_str =
               <<"-", " ", "P", "C", "M", " ", "1", "g", " ", "(", "f", "o", "r", " ",
                 "f", "l", "u", ")">>

\* two labels are the same but for the case of their letters
UpperChar(c) ==
    CASE c = "e" -> "E" [] c = "n" -> "N" [] c = "t" -> "T" [] c = "y" -> "Y"
      [] c = "a" -> "A" [] c = "b" -> "B" [] c = "c" -> "C" [] c = "d" -> "D"
      [] c = "f" -> "F" [] c = "g" -> "G" [] c = "h" -> "H" [] c = "i" -> "I"
      [] c = "j" -> "J" [] c = "k" -> "K" [] c = "l" -> "L" [] c = "m" -> "M"
      [] c = "o" -> "O" [] c = "p" -> "P" [] c = "q" -> "Q" [] c = "r" -> "R"
      [] c = "s" -> "S" [] c = "u" -> "U" [] c = "v" -> "V" [] c = "w" -> "W"
      [] c = "x" -> "X" [] c = "z" -> "Z"
      [] OTHER -> c

SameIgnoringCase(a, b) ==
    /\ Len(a) = Len(b)
    /\ \A i \in DOMAIN a : UpperChar(a[i]) = UpperChar(b[i])

\* the entries of the practitioner directory (the staff documents with role
\* Doctor) whose specialty is the label, ignoring case
EntriesFor(label) ==
    {i \in DOMAIN staffs :
        /\ IsDoctor(staffs[i])
        /\ "specialization" \in DOMAIN staffs[i].data
        /\ SameIgnoringCase(staffs[i].data.specialization, label)}

\* the request matched a record and its routing step is over
RoutingOver(q) ==
    /\ q.matched_appointment # NoneObj
    /\ \/ q.pc \in {"compose", "compose_db", "create_approval", "done"}
       \/ q.pc = "failed" /\ q.calls[Len(q.calls)].fn = "generate_combined_response"

\* C17: the directory is queried only with a non-empty label, and once; when the
\* query returned, the practitioner routing yields is the first directory entry
\* whose specialty equals the label ignoring case; when the label is empty or no
\* entry has it, routing yields (None, None), and the request composes without
\* routing notice, with the soft disclaimer, once, and writes no approval record.
C17_FirstEntryForTheLabel ==
    \A r \in Requests :
        LET q == req[r]
            lookups == CallsOf(q, "find_doctor_by_specialty")
            entries == EntriesFor(q.specialty)
        IN  /\ \A c \in lookups :
                   /\ q.calls[c].specialty # <<>>
                   /\ q.calls[c].specialty = q.specialty
                   /\ lookups = {c}
            /\ RoutingOver(q) =>
                   /\ lookups = {} <=> q.specialty = <<>>
                   /\ q.specialty = <<>> \/ entries = {} =>
                          /\ q.routed_doctor_id = None /\ q.routed_doctor_name = None
                          /\ q.pc \notin {"compose_db", "create_approval"}
                          /\ CallsOf(q, "create_pending_approval") = {}
                          /\ ApprovalsOf(q) = {}
                          /\ Cardinality(CallsOf(q, "generate_combined_response")) <= 1
                          /\ q.pc = "done" =>
                                 /\ q.result = q.final_response
                                 /\ q.result.generated_from.routing_message = [text |-> ""]
                                 /\ q.result.generated_from.final_call_to_action = CONSULT_A_DOCTOR
                                 /\ q.result.generated_from.ai_suggestion_text.date =
                                        Get(q.matched_appointment, "appointmentDate")
                   /\ /\ q.specialty # <<>>
                      /\ entries # {}
                      /\ \A c \in lookups : ~q.calls[c].store_raised
                      => LET first == CHOOSE i \in entries : \A j \in entries : i <= j
                             entry == staffs[first].data
                         IN  /\ "staffId" \in DOMAIN entry => q.routed_doctor_id = entry.staffId
                             /\ "staffId" \notin DOMAIN entry => q.routed_doctor_id \in {None, NaN}
                             /\ "name" \in DOMAIN entry => q.routed_doctor_name = entry.name
                             /\ "name" \notin DOMAIN entry => q.routed_doctor_name \in {None, NaN}

\* the label ENT was looked up in a directory whose first entry of that
\* specialty spells it in lower case, after an entry of another specialty
C17_Witness ==
    \E r \in Requests :
        /\ req[r].pc = "done"
        /\ req[r].specialty = ENT
        /\ staffs = <<S3, S2, S1>>
        /\ req[r].routed_doctor_id = "s2"
        /\ req[r].routed_doctor_name = "Iyer"

\* the replies that, trimmed and lower-cased, read "true"
ReadsTrue(reply) ==
    reply \in {<<"t", "r", "u", "e">>, <<" ", "T", "r", "u", "e", "\n">>, <<"T", "R", "U", "E">>,
               <<"t", "r", "u", "e", "\r", "\n">>,
               <<"", " ", "T", "r", "u", "e", "", "">>}

\* the red-flag check of the request returned (the NLU call did not raise)
RedFlagChecked(q) ==
    /\ CallsOf(q, "check_for_red_flags") # {}
    /\ q.pc # "red_flag"
    /\ ~(q.pc = "failed" /\ Len(q.calls) = 1)

\* C18: on every NLU reply (tried where a request is at, or just past, the
\* red-flag step) check_for_red_flags gives a boolean, true exactly
\* when the reply trimmed and lower-cased is "true"; the check itself never ends
\* a request: a request fails at the red-flag step only by the NLU's own error,
\* and once the check returned, the request either holds the emergency text
\* (true) or has gone on to the history fetch (false).
C18_TrueOnlyOnTheWordTrue ==
    \A r \in Requests :
        LET q == req[r]
        IN  /\ q.pc \in {"red_flag", "fetch"} =>
                   \A reply \in RedFlagReplies :
                       /\ RedFlagApiCall(reply) \in BOOLEAN
                       /\ RedFlagApiCall(reply) <=> ReadsTrue(reply)
            /\ q.pc = "failed" /\ Len(q.calls) = 1 =>
                   /\ q.calls[1].fn = "check_for_red_flags"
                   /\ q.error \in ApiErrors
                   /\ q.llm.status = "raised"
            /\ RedFlagChecked(q) =>
                   /\ q.red_flag => q.pc = "done" /\ q.result = Literal(EMERGENCY_WARNING)
                   /\ ~q.red_flag => CallsOf(q, "get_patient_appointments_by_id") # {}
                                     \/ q.pc = "fetch"

\* the check returned false after a retry, and the request went on to the fetch
C18_Witness ==
    \E r \in Requests :
        /\ RedFlagChecked(req[r])
        /\ ~req[r].red_flag
        /\ req[r].pc = "fetch"
        /\ req[r].llm.attempts = <<RateLimit, "ok">>

\* the create_pending_approval calls of the request on which the store did not raise
WritesOf(q) ==
    {c \in CallsOf(q, "create_pending_approval") : db /\ ~q.calls[c].store_raised}

\* the records of the store that carry the patient id of the request
RecordsFor(q) == {i \in DOMAIN pendingApprovals : pendingApprovals[i].patientId = q.patient_id}

\* C19: under every interleaving of two requests for different patients, each
\* request keeps its own patient id and symptom text in every call it makes,
\* holds only its own patient's records, returns on one branch the string
\* composed from its own locals, and has in the store exactly the records its
\* own successful writes account for, built from its own patient id, symptom
\* text, routed doctor and routing-free composition; every record of the store
\* is the record of exactly one request.
C19_RequestsDoNotInterfere ==
    /\ \A r \in DOMAIN req :
        LET q == req[r]
        IN  q.pc # "idle" =>
                /\ q.patient_id = ConcReport(r).patient_id
                /\ q.user_input = ConcReport(r).message
                /\ \A c \in DOMAIN q.calls :
                       /\ "user_input" \in DOMAIN q.calls[c] => q.calls[c].user_input = q.user_input
                       /\ "patient_id" \in DOMAIN q.calls[c] => q.calls[c].patient_id = q.patient_id
                       /\ "symptoms" \in DOMAIN q.calls[c] => q.calls[c].symptoms = q.user_input
                /\ Fetched(q) =>
                       q.patient_appointments = get_patient_appointments_by_id(q.patient_id)
                /\ \A i \in DOMAIN q.patient_appointments :
                       q.patient_appointments[i].patientId = q.patient_id
                /\ q.matched_appointment # NoneObj =>
                       q.matched_appointment.patientId = q.patient_id
                /\ q.pc = "done" =>
                       /\ Cardinality(Branches(q)) = 1
                       /\ ~q.red_flag =>
                              q.result = Generated(CombinedPrompt(q.user_input,
                                                                  q.matched_appointment,
                                                                  q.history_doctor_name,
                                                                  q.routed_doctor_name))
                /\ Cardinality(WritesOf(q)) <= 1
                /\ Cardinality(RecordsFor(q)) = Cardinality(WritesOf(q))
                /\ \A i \in RecordsFor(q) :
                       /\ pendingApprovals[i].symptoms = q.user_input
                       /\ pendingApprovals[i].staffId = q.routed_doctor_id
                       /\ pendingApprovals[i].aiOutput =
                              Generated(CombinedPrompt(q.user_input, q.matched_appointment,
                                                       q.history_doctor_name, None))
                       /\ pendingApprovals[i].status = "Pending"
    /\ \A i \in DOMAIN pendingApprovals :
           Cardinality({r \in DOMAIN req : i \in RecordsFor(req[r]) /\ WritesOf(req[r]) # {}}) = 1

\* both requests were routed and returned; the second request's record was
\* stored before the first request's
C19_Witness ==
    /\ DOMAIN req = ConcRequests
    /\ \A r \in ConcRequests : req[r].pc = "done" /\ WritesOf(req[r]) # {}
    /\ Len(pendingApprovals) = 2
    /\ pendingApprovals[1].patientId = "p2"
    /\ pendingApprovals[2].patientId = "p1"

\* the response tells the user that the suggestion was forwarded to a doctor
ToldForwarded(text) ==
    /\ "generated_from" \in DOMAIN text
    /\ text.generated_from.routing_message # [text |-> ""]
    /\ text.generated_from.final_call_to_action = WAIT_FOR_APPROVAL

\* C20 (as claimed): whenever a request has returned a response composed with
\* the routing notice and the strong disclaimer, the store holds a Pending
\* approval record of that request for the doctor routing returned.
C20_ForwardedMeansRecorded ==
    \A r \in Requests :
        LET q == req[r]
        IN  q.pc = "done" /\ ToldForwarded(q.result) =>
                \E i \in ApprovalsOf(q) :
                    /\ pendingApprovals[i].patientId = q.patient_id
                    /\ pendingApprovals[i].staffId = q.routed_doctor_id
                    /\ pendingApprovals[i].status = "Pending"

\* C21: a request that ended with an error has made no approval write; an
\* approval write is the last call of its request, which has then returned the
\* composed user-facing response; so every record of the store is accounted
\* for by a request that returned a composed response.
C21_FailedRequestWroteNothing ==
    /\ \A r \in Requests :
        LET q == req[r]
            writes == CallsOf(q, "create_pending_approval")
        IN  /\ q.pc = "failed" => writes = {}
            /\ \A c \in writes :
                   /\ c = Len(q.calls)
                   /\ q.pc = "done"
                   /\ q.error = None
                   /\ "generated_from" \in DOMAIN q.result
                   /\ q.result = q.final_response
    /\ \A i \in DOMAIN pendingApprovals :
           \E r \in Requests : req[r].pc = "done" /\ i \in ApprovalsOf(req[r])

\* a routed request failed in the last step that can raise, the composition of
\* the routing-free variant, and no record of it is in the store
C21_Witness ==
    \E r \in Requests :
        /\ req[r].pc = "failed"
        /\ req[r].error \in ApiErrors
        /\ Truthy(req[r].routed_doctor_id)
        /\ req[r].final_response # NoneObj
        /\ Cardinality(CallsOf(req[r], "generate_combined_response")) = 2
        /\ ApprovalsOf(req[r]) = {}

\* C22 (as claimed): for a non-empty record set and every NLU reply to the
\* match step (unparsable text, an empty object, an object without a doc id or
\* with an unknown one, an array, a string, a number, null), find_best_match
\* raises nothing and returns not-found or one of the supplied records; no
\* request ends with an error raised by find_best_match itself.
C22_MatchNeverRaises ==
    \A r \in Requests :
        LET q == req[r]
            apps == q.patient_appointments
        IN  /\ q.pc = "match" /\ apps # <<>> =>
                   \A reply \in MatchReplies :
                       LET found == FindBestMatchOn(reply, apps)
                       IN  /\ ~found.raised
                           /\ \/ found.value = NoneObj
                              \/ \E i \in DOMAIN apps : apps[i] = found.value
            /\ q.pc = "failed" /\ q.calls[Len(q.calls)].fn = "find_best_match" =>
                   q.error \in ApiErrors

====
